---- MODULE Spec2Model ----
(***************************************************************************)
(* LevelUPGym: progression ledger, streak engine, achievement evaluator    *)
(* and workout-session machine, modelled from the Python sources.          *)
(*                                                                         *)
(* Dates are day ordinals (day 1 is a Monday); NULL dates are 0.           *)
(* REAL multipliers are kept in tenths (10 is 1.0, 20 is 2.0).             *)
(* A percentage is kept as the fraction num / den.                         *)
(*                                                                         *)
(* main.py calls save_session_swap and get_session_swaps of the session    *)
(* controller, which the controller does not define; the substitution      *)
(* store is written here as the specification describes it (a per-session  *)
(* map from the original exercise to its replacement).  The routes' own    *)
(* progress call only renders a page and is not part of the state.         *)
(* attendance.exp_earned is not kept.                                      *)
(***************************************************************************)
EXTENDS Integers, Sequences, FiniteSets, TLC

VARIABLES
    today,                \* the wall clock's date (date.today(), datetime.now().date())
    available,            \* client_availability: client -> day names with is_available = 1
    attendance,           \* attendance rows: set of [client_id, check_in_date]
    streaks,              \* client_streaks: client -> row
    gam,                  \* client_gamification: client -> row
    client_achievements,  \* client_achievements: client -> achievement_id -> number of rows
    workout_logs,         \* workout_logs: a bag of rows (row -> number of copies)
    sessions,             \* workout_sessions: sequence of rows, session_id is the index
    completions,          \* workout_set_completions: set of rows
    session_swaps,        \* the substitutions saved per session: set of rows
    test_results,         \* test_results: a bag of rows
    routine_exercises,    \* routine_exercises: per routine, its rows in order_position
    cookie,               \* Flask session of each client's browser: workout_session_id or 0
    threads,              \* the log_set requests in flight, one per worker thread
    lastOp                \* the last operation, its arguments, its result and the rows it read

vars == <<today, available, attendance, streaks, gam, client_achievements,
          workout_logs, sessions, completions, session_swaps, test_results,
          routine_exercises, cookie, threads, lastOp>>

----------------------------------------------------------------------------
(* Bounds of the model *)

MaxDay == 9
MaxTotalExp == 3000
MaxStreakAwards == 2

(* Program constants *)

MaxLevelInLoop == 20
TableMaxLevel == 100
MultiplierCap10 == 20

Clients == {1, 2}
NULL == 0

Min(a, b) == IF a < b THEN a ELSE b

----------------------------------------------------------------------------
(* datetime.strftime("%A") on a day ordinal; day 1 is a Monday *)
DayName(d) ==
    CASE d % 7 = 1 -> "Monday"
      [] d % 7 = 2 -> "Tuesday"
      [] d % 7 = 3 -> "Wednesday"
      [] d % 7 = 4 -> "Thursday"
      [] d % 7 = 5 -> "Friday"
      [] d % 7 = 6 -> "Saturday"
      [] OTHER     -> "Sunday"

WeekDays == {"Monday", "Tuesday", "Wednesday", "Thursday", "Friday"}

(* The availabilities Client.set_availability is given in the model *)
AvailabilityChoices == {WeekDays, {"Monday", "Wednesday", "Friday"}, {}}

----------------------------------------------------------------------------
(* Rows as the schema and the onboarding code create them *)

NewStreakRow ==
    [present |-> TRUE, current_streak |-> 0, longest_streak |-> 0,
     last_attendance_date |-> NULL, streak_multiplier |-> 10]

NewGamRow ==
    [present |-> TRUE, current_level |-> 1, current_exp |-> 0, total_exp |-> 0, rank |-> "E",
     client_class |-> "None", class_unlocked_at_level |-> NULL,
     current_streak |-> 0, longest_streak |-> 0]

(* The whole database as one value, for the operators that compose handlers *)
Db == [attendance |-> attendance, streaks |-> streaks, gam |-> gam,
       client_achievements |-> client_achievements, workout_logs |-> workout_logs,
       sessions |-> sessions, completions |-> completions,
       session_swaps |-> session_swaps, test_results |-> test_results,
       routine_exercises |-> routine_exercises]

NoOp ==
    [op |-> "init", prev_op |-> "init", client |-> 0, ok |-> FALSE, date |-> NULL,
     arg |-> 0, raised |-> "none", unlocked |-> <<>>, mult |-> 0, gained |-> 0,
     pre_streak |-> NewStreakRow, mid_streak |-> NewStreakRow,
     pre_gam |-> NewGamRow, pre_count |-> 0,
     session_id |-> 0, exercise_id |-> 0, set_number |-> 0, reps |-> 0,
     weight |-> 0, pre_rows |-> {}, status |-> "none",
     test_name |-> "none", rank |-> "none", points |-> 0,
     class_mult |-> 0, class_name |-> "none", test_names |-> {}]

----------------------------------------------------------------------------
(* DatabaseManager._only_missed_rest_days: the loop appends every day after
   last_date up to and including today *)
CheckedDays(last_date, t) == {d \in 1..t : d > last_date}

OnlyMissedRestDays(last_date, t, available_days) ==
    \A d \in CheckedDays(last_date, t) : DayName(d) \notin available_days

(* An update_streak that stores the current streak as the longest one *)
StreakRowAfterLongestIsCurrent(row, t, available_days) ==
    IF ~row.present
    THEN [present |-> TRUE, current_streak |-> 1, longest_streak |-> 1,
          last_attendance_date |-> t, streak_multiplier |-> 10]
    ELSE
      LET last_date == row.last_attendance_date
          days_difference == t - last_date
          current_streak ==
              IF last_date # NULL
              THEN IF days_difference = 1
                      \/ (days_difference > 1
                          /\ OnlyMissedRestDays(last_date, t, available_days))
                   THEN row.current_streak + 1
                   ELSE 1
              ELSE 1
      IN [row EXCEPT !.current_streak = current_streak,
                     !.longest_streak = current_streak,
                     !.last_attendance_date = t]

(* DatabaseManager.update_streak: the client_streaks row after the call *)
StreakRowAfter(row, t, available_days) ==
    IF ~row.present
    THEN [present |-> TRUE, current_streak |-> 1, longest_streak |-> 1,
          last_attendance_date |-> t, streak_multiplier |-> 10]
    ELSE
      LET last_date == row.last_attendance_date
          days_difference == t - last_date
          current_streak ==
              IF last_date # NULL
              THEN IF days_difference = 1
                      \/ (days_difference > 1
                          /\ OnlyMissedRestDays(last_date, t, available_days))
                   THEN row.current_streak + 1
                   ELSE 1
              ELSE 1
          longest_streak ==
              IF current_streak > row.longest_streak
              THEN current_streak ELSE row.longest_streak
      IN [row EXCEPT !.current_streak = current_streak,
                     !.longest_streak = longest_streak,
                     !.last_attendance_date = t]

(* DatabaseManager.update_streak on the database: the streak row, and the
   mirror into client_gamification when the row already existed *)
DbUpdateStreak(db, c, t, available_days) ==
    LET row == db.streaks[c]
        new == StreakRowAfter(row, t, available_days)
    IN [db EXCEPT
          !.streaks[c] = new,
          !.gam[c] = IF row.present
                     THEN [@ EXCEPT !.current_streak = new.current_streak,
                                    !.longest_streak = new.longest_streak]
                     ELSE @]

(* AttendanceController._get_attendance_for_date *)
HasAttendance(db, c, d) ==
    [client_id |-> c, check_in_date |-> d] \in db.attendance

(* AttendanceController.check_in: the duplicate guard, the attendance row,
   then the streak update, which reads the wall clock and not check_in_date *)
CheckInDb(db, c, d, t, available_days) ==
    IF HasAttendance(db, c, d)
    THEN db
    ELSE DbUpdateStreak(
            [db EXCEPT !.attendance = @ \cup {[client_id |-> c, check_in_date |-> d]}],
            c, t, available_days)

----------------------------------------------------------------------------
(* A multiplier that grows by a tenth per day with no cap *)
StreakMultiplierUncapped(current_streak) == 10 + (current_streak - 1)

(* GamificationController.update_streak: min(1.0 + (current_streak - 1) * 0.1,
   2.0), in tenths *)
StreakMultiplierFor(current_streak) ==
    Min(10 + (current_streak - 1), MultiplierCap10)

(* GamificationController.update_streak: the client_streaks row it writes *)
GamStreakRowAfter(row, check_in_date) ==
    LET last_date == row.last_attendance_date
        days_diff == check_in_date - last_date
        current_streak ==
            IF last_date # NULL
            THEN IF days_diff = 1 THEN row.current_streak + 1
                 ELSE IF days_diff = 0 THEN row.current_streak
                 ELSE 1
            ELSE 1
        longest_streak ==
            IF current_streak > row.longest_streak
            THEN current_streak ELSE row.longest_streak
    IN [row EXCEPT !.current_streak = current_streak,
                   !.longest_streak = longest_streak,
                   !.last_attendance_date = check_in_date,
                   !.streak_multiplier = StreakMultiplierFor(current_streak)]

(* GamificationController.update_streak on the database: nothing without a
   client_streaks row *)
GamUpdateStreakDb(db, c, check_in_date) ==
    IF db.streaks[c].present
    THEN [db EXCEPT !.streaks[c] = GamStreakRowAfter(@, check_in_date)]
    ELSE db

----------------------------------------------------------------------------
(* GamificationController.EXP_TABLE *)
EXP_TABLE ==
    <<
       0, 100, 250, 450, 700, 1000, 1350, 1750, 2200, 2700,
       3250, 3850, 4500, 5200, 5950, 6750, 7600, 8500, 9450, 10450,
       11500, 12600, 13750, 14950, 16200, 17500, 18850, 20250, 21700, 23200,
       24750, 26350, 28000, 29700, 31450, 33250, 35100, 37000, 38950, 40950,
       43000, 45100, 47250, 49450, 51700, 54000, 56350, 58750, 61200, 63700,
       66250, 68850, 71500, 74200, 76950, 79750, 82600, 85500, 88450, 91450,
       94500, 97600, 100750, 103950, 107200, 110500, 113850, 117250, 120700, 124200,
       127750, 131350, 135000, 138700, 142450, 146250, 150100, 154000, 157950, 161950,
       166000, 170100, 174250, 178450, 182700, 187000, 191350, 195750, 200200, 204700,
       209250, 213850, 218500, 223200, 227950, 232750, 237600, 242500, 247450, 252450
    >>

(* GamificationController._get_streak_multiplier *)
GetStreakMultiplier(db, c) ==
    IF db.streaks[c].present THEN db.streaks[c].streak_multiplier ELSE 10

(* The bonus keywords of _get_class_multiplier, per class *)
ClassBonuses(client_class) ==
    CASE client_class = "Warrior"  -> {"strength", "power", "weights"}
      [] client_class = "Ranger"   -> {"cardio", "endurance", "running"}
      [] client_class = "Tank"     -> {"compound", "full-body", "functional"}
      [] client_class = "Assassin" -> {"hiit", "speed", "agility"}
      [] client_class = "Mage"     -> {"balance", "flexibility", "technique"}
      [] OTHER -> {}

(* GamificationController._get_class_multiplier; an exercise type is given as
   the set of keywords its lower-cased text contains ({} for no type) *)
GetClassMultiplier(client_class, exercise_type) ==
    IF client_class = "None" \/ exercise_type = {}
    THEN 10
    ELSE IF ClassBonuses(client_class) \cap exercise_type # {} THEN 12 ELSE 10

(* The product of the decimal values, rounded down *)
ExpGainedExact(base_exp, streak10, class10) ==
    (base_exp * streak10 * class10) \div 100

(* total_multiplier = streak_multiplier * class_multiplier is a binary64
   product: the stored streak multiplier is the binary64 value of
   min(1.0 + (s - 1) * 0.1, 2.0) and the class multiplier that of 1.0 or 1.2.
   The table gives, per pair of multipliers in tenths, the difference between
   that product and the decimal product, in units of 2^-52 / 25 *)
MultiplierError ==
    [m \in (10..MultiplierCap10) \X {10, 12} |->
        CASE m = <<10, 10>> -> 0    [] m = <<10, 12>> -> -5
          [] m = <<11, 10>> -> 10   [] m = <<11, 12>> -> 7
          [] m = <<12, 10>> -> -5   [] m = <<12, 12>> -> -6
          [] m = <<13, 10>> -> 5    [] m = <<13, 12>> -> 6
          [] m = <<14, 10>> -> -10  [] m = <<14, 12>> -> -7
          [] m = <<15, 10>> -> 0    [] m = <<15, 12>> -> -20
          [] m = <<16, 10>> -> 10   [] m = <<16, 12>> -> -8
          [] m = <<17, 10>> -> 20   [] m = <<17, 12>> -> 4
          [] m = <<18, 10>> -> 5    [] m = <<18, 12>> -> 16
          [] m = <<19, 10>> -> -10  [] m = <<19, 12>> -> -22
          [] m = <<20, 10>> -> 0    [] m = <<20, 12>> -> -10]

(* The largest power of two below n (n >= 2; 1 for n = 1): the spacing of the binary64
   values just below n is this power times 2^-52 *)
RECURSIVE PowerOfTwoBelow(_)
PowerOfTwoBelow(n) == IF n <= 2 THEN 1 ELSE 2 * PowerOfTwoBelow((n + 1) \div 2)

(* int(base_exp * total_multiplier), multipliers in tenths.  base_exp *
   total_multiplier is rounded to the nearest binary64 value (ties to even)
   and int() truncates: the result is below the exact floor when the decimal
   product is a whole number n, the binary64 multiplier lies below the decimal
   one and base_exp times its error exceeds half the spacing below n *)
ExpGained(base_exp, streak10, class10) ==
    LET exact == ExpGainedExact(base_exp, streak10, class10)
        err == MultiplierError[<<streak10, class10>>]
    IN IF /\ (base_exp * streak10 * class10) % 100 = 0
          /\ exact >= 1
          /\ err < 0
          /\ 2 * base_exp * (-err) > 25 * PowerOfTwoBelow(exact)
       THEN exact - 1
       ELSE exact

(* The level-up loop of add_experience: the level compared against the
   cumulative threshold of the next level, up to level 20 *)
RECURSIVE LevelAfter(_, _)
LevelAfter(level, exp) ==
    IF level < MaxLevelInLoop /\ exp >= EXP_TABLE[level + 1]
    THEN LevelAfter(level + 1, exp)
    ELSE level

(* GamificationController.add_experience: the client_gamification row written *)
GamRowAfterExp(row, exp_gained) ==
    LET added == row.current_exp + exp_gained
        new_level == LevelAfter(row.current_level, added)
        leveled_up == new_level > row.current_level
    IN [row EXCEPT
          !.current_exp = IF leveled_up THEN added - EXP_TABLE[new_level] ELSE added,
          !.total_exp = @ + exp_gained,
          !.current_level = new_level]

AddExperienceGained(db, c, base_exp, exercise_type) ==
    ExpGained(base_exp, GetStreakMultiplier(db, c),
              GetClassMultiplier(db.gam[c].client_class, exercise_type))

(* add_experience returns None, writing nothing, when the client has no
   client_gamification row *)
AddExperienceDb(db, c, base_exp, exercise_type) ==
    IF ~db.gam[c].present
    THEN db
    ELSE [db EXCEPT !.gam[c] =
            GamRowAfterExp(@, AddExperienceGained(db, c, base_exp, exercise_type))]

(* The names of GamificationController.CLASSES *)
CLASSES == {"Warrior", "Ranger", "Tank", "Assassin", "Mage"}

ClassUnlockLevel == 5

(* unlock_class without the 'Class already selected' check *)
UnlockClassResultOverwrites(db, c, class_name) ==
    IF class_name \notin CLASSES
    THEN [success |-> FALSE, message |-> "Invalid class name"]
    ELSE IF db.gam[c].current_level < ClassUnlockLevel
    THEN [success |-> FALSE, message |-> "Must be level 5 to choose a class"]
    ELSE [success |-> TRUE, message |-> "Class unlocked"]

(* GamificationController.unlock_class: the checks, in the code's order *)
UnlockClassResult(db, c, class_name) ==
    IF class_name \notin CLASSES
    THEN [success |-> FALSE, message |-> "Invalid class name"]
    ELSE IF db.gam[c].current_level < ClassUnlockLevel
    THEN [success |-> FALSE, message |-> "Must be level 5 to choose a class"]
    ELSE IF db.gam[c].client_class # "None"
    THEN [success |-> FALSE, message |-> "Class already selected"]
    ELSE [success |-> TRUE, message |-> "Class unlocked"]

(* GamificationController.unlock_class on the database *)
UnlockClassDb(db, c, class_name) ==
    IF UnlockClassResult(db, c, class_name).success
    THEN [db EXCEPT !.gam[c].client_class = class_name,
                    !.gam[c].class_unlocked_at_level = db.gam[c].current_level]
    ELSE db

----------------------------------------------------------------------------
(* AchievementController.DEFAULT_ACHIEVEMENTS, names in ASCII *)
DEFAULT_ACHIEVEMENTS ==
    <<
       [name |-> "First Steps", type |-> "level", requirement |-> 5, exp_reward |-> 100],
       [name |-> "Rising Star", type |-> "level", requirement |-> 10, exp_reward |-> 250],
       [name |-> "Veteran", type |-> "level", requirement |-> 15, exp_reward |-> 500],
       [name |-> "Master", type |-> "level", requirement |-> 20, exp_reward |-> 1000],
       [name |-> "Ascendant", type |-> "level", requirement |-> 30, exp_reward |-> 1500],
       [name |-> "Peak Performer", type |-> "level", requirement |-> 50, exp_reward |-> 3000],
       [name |-> "Limit Breaker", type |-> "level", requirement |-> 75, exp_reward |-> 5000],
       [name |-> "True Legend", type |-> "level", requirement |-> 100, exp_reward |-> 10000],
       [name |-> "Consistency is Key", type |-> "attendance", requirement |-> 10, exp_reward |-> 150],
       [name |-> "Gym Regular", type |-> "attendance", requirement |-> 30, exp_reward |-> 300],
       [name |-> "Iron Dedication", type |-> "attendance", requirement |-> 100, exp_reward |-> 1000],
       [name |-> "Never Miss a Day", type |-> "attendance", requirement |-> 250, exp_reward |-> 2000],
       [name |-> "Lifetime Member", type |-> "attendance", requirement |-> 500, exp_reward |-> 5000],
       [name |-> "On Fire", type |-> "streak", requirement |-> 7, exp_reward |-> 200],
       [name |-> "Unstoppable", type |-> "streak", requirement |-> 30, exp_reward |-> 500],
       [name |-> "Legend", type |-> "streak", requirement |-> 100, exp_reward |-> 2000],
       [name |-> "365 Grind", type |-> "streak", requirement |-> 365, exp_reward |-> 7500],
       [name |-> "First Workout", type |-> "workouts", requirement |-> 1, exp_reward |-> 50],
       [name |-> "Getting Strong", type |-> "workouts", requirement |-> 50, exp_reward |-> 400],
       [name |-> "Fitness Warrior", type |-> "workouts", requirement |-> 100, exp_reward |-> 800],
       [name |-> "Gym Veteran", type |-> "workouts", requirement |-> 250, exp_reward |-> 1500],
       [name |-> "Titan of Training", type |-> "workouts", requirement |-> 500, exp_reward |-> 3000],
       [name |-> "D-Rank Fighter", type |-> "rank", requirement |-> "D", exp_reward |-> 100],
       [name |-> "C-Rank Athlete", type |-> "rank", requirement |-> "C", exp_reward |-> 200],
       [name |-> "B-Rank Champion", type |-> "rank", requirement |-> "B", exp_reward |-> 300],
       [name |-> "A-Rank Elite", type |-> "rank", requirement |-> "A", exp_reward |-> 500],
       [name |-> "S-Rank Legend", type |-> "rank", requirement |-> "S", exp_reward |-> 750],
       [name |-> "SS-Rank Master", type |-> "rank", requirement |-> "SS", exp_reward |-> 1500],
       [name |-> "Omega-Rank Godlike", type |-> "rank", requirement |-> "Omega", exp_reward |-> 5000],
       [name |-> "Hundred Club", type |-> "sets", requirement |-> 100, exp_reward |-> 200],
       [name |-> "Volume Master", type |-> "sets", requirement |-> 500, exp_reward |-> 600],
       [name |-> "Set Machine", type |-> "sets", requirement |-> 1000, exp_reward |-> 1200],
       [name |-> "Reps for Days", type |-> "reps", requirement |-> 1000, exp_reward |-> 300],
       [name |-> "Rep Monster", type |-> "reps", requirement |-> 5000, exp_reward |-> 1200],
       [name |-> "Endurance Machine", type |-> "reps", requirement |-> 10000, exp_reward |-> 3000],
       [name |-> "Class Chosen", type |-> "class", requirement |-> 1, exp_reward |-> 150],
       [name |-> "Dedicated Specialist", type |-> "class_progress", requirement |-> 25, exp_reward |-> 400],
       [name |-> "Class Master", type |-> "class_mastery", requirement |-> 1, exp_reward |-> 1500],
       [name |-> "Daily Grinder", type |-> "milestone", requirement |-> 7, exp_reward |-> 250],
       [name |-> "Morning Champion", type |-> "milestone", requirement |-> 30, exp_reward |-> 600],
       [name |-> "Night Owl", type |-> "milestone", requirement |-> 30, exp_reward |-> 600],
       [name |-> "Comeback Story", type |-> "milestone", requirement |-> 1, exp_reward |-> 400],
       [name |-> "Ultimate Grind", type |-> "milestone", requirement |-> 365, exp_reward |-> 10000]
    >>

AchievementIds == 1..Len(DEFAULT_ACHIEVEMENTS)

(* rank_order.get(rank, 0) *)
RankOrderGet(rank) ==
    CASE rank = "E" -> 0
      [] rank = "D" -> 1
      [] rank = "C" -> 2
      [] rank = "B" -> 3
      [] rank = "A" -> 4
      [] rank = "S" -> 5
      [] rank = "SS" -> 6
      [] OTHER -> 0

(* AchievementController.initialize_achievements: the achievements row of id a *)
AchievementRow(a) ==
    LET ach == DEFAULT_ACHIEVEMENTS[a]
    IN [achievement_id |-> a,
        achievement_type |-> ach.type,
        requirement_value |-> IF ach.type = "rank"
                              THEN RankOrderGet(ach.requirement)
                              ELSE ach.requirement,
        exp_reward |-> ach.exp_reward]

(* The workout query of _get_client_stats holds no ? placeholder (it reads
   client_id=15) and is executed with one parameter: sqlite3 raises
   ProgrammingError for an incorrect number of bindings *)
StatsQueryPlaceholders == 0
StatsQueryParameters == 1
StatsClientId == 15
StatsQueryRaises == StatsQueryPlaceholders # StatsQueryParameters

(* The rows of a bag of workout_logs that the stats query selects *)
StatsRows(db) ==
    {r \in DOMAIN db.workout_logs :
        r.client_id = StatsClientId /\ r.measurement = "reps"}

RECURSIVE SumReps(_, _)
SumReps(logs, rows) ==
    IF rows = {} THEN 0
    ELSE LET r == CHOOSE x \in rows : TRUE
         IN logs[r] * r.reps_completed + SumReps(logs, rows \ {r})

RECURSIVE CountRows(_, _)
CountRows(logs, rows) ==
    IF rows = {} THEN 0
    ELSE LET r == CHOOSE x \in rows : TRUE
         IN logs[r] + CountRows(logs, rows \ {r})

(* AchievementController._get_client_stats, were its queries to run *)
GetClientStats(db, c) ==
    [level |-> db.gam[c].current_level,
     rank |-> db.gam[c].rank,
     client_class |-> db.gam[c].client_class,
     current_streak |-> db.streaks[c].current_streak,
     longest_streak |-> db.streaks[c].longest_streak,
     total_visits |-> Cardinality({r \in db.attendance : r.client_id = c}),
     total_workouts |-> Cardinality({r.workout_date : r \in StatsRows(db)}),
     total_sets |-> CountRows(db.workout_logs, StatsRows(db)),
     total_reps |-> SumReps(db.workout_logs, StatsRows(db))]

(* AchievementController._check_achievement_requirement *)
CheckAchievementRequirement(achievement, stats) ==
    LET ach_type == achievement.achievement_type
        requirement == achievement.requirement_value
    IN CASE ach_type = "level" -> stats.level >= requirement
         [] ach_type = "attendance" -> stats.total_visits >= requirement
         [] ach_type = "streak" -> stats.current_streak >= requirement
         [] ach_type = "workouts" -> stats.total_workouts >= requirement
         [] ach_type = "rank" -> RankOrderGet(stats.rank) >= requirement
         [] ach_type = "sets" -> stats.total_sets >= requirement
         [] ach_type = "reps" -> stats.total_reps >= requirement
         [] ach_type = "class" -> stats.client_class # "None"
         [] OTHER -> FALSE

(* An unlock check that never finds the row *)
IsAchievementUnlockedNever(db, c, a) ==
    a \in AchievementIds /\ FALSE

(* AchievementController._is_achievement_unlocked *)
IsAchievementUnlocked(db, c, a) ==
    a \in AchievementIds /\ db.client_achievements[c][a] > 0

(* AchievementController._get_unlocked_achievement_ids *)
UnlockedAchievementIds(db, c) ==
    {a \in AchievementIds : db.client_achievements[c][a] > 0}

(* The INSERT of unlock_achievement under UNIQUE(client_id, achievement_id) *)
InsertRaises(db, c, a) == db.client_achievements[c][a] > 0

(* AchievementController.unlock_achievement: what the call reports *)
UnlockOutcome(db, c, a) ==
    IF IsAchievementUnlocked(db, c, a) THEN "already unlocked"
    ELSE IF a \notin AchievementIds THEN "not found"
    ELSE IF InsertRaises(db, c, a) THEN "IntegrityError"
    ELSE IF ~db.gam[c].present THEN "TypeError"
    ELSE "success"

(* AchievementController.unlock_achievement: the database after the call; the
   row is inserted and committed, then the reward goes through add_experience
   with no exercise type; subscripting its None raises after the commit *)
UnlockAchievementDb(db, c, a) ==
    IF UnlockOutcome(db, c, a) \in {"success", "TypeError"}
    THEN AddExperienceDb([db EXCEPT !.client_achievements[c][a] = @ + 1],
                         c, AchievementRow(a).exp_reward, {})
    ELSE db

(* The loop of check_and_unlock_achievements from achievement a on: stats and
   unlocked_ids are those read before the loop *)
RECURSIVE UnlockLoop(_, _, _, _, _)
UnlockLoop(db, c, a, stats, unlocked_ids) ==
    IF a \notin AchievementIds
    THEN [db |-> db, newly_unlocked |-> <<>>]
    ELSE IF a \notin unlocked_ids
            /\ CheckAchievementRequirement(AchievementRow(a), stats)
            /\ UnlockOutcome(db, c, a) = "success"
         THEN LET rest == UnlockLoop(UnlockAchievementDb(db, c, a), c, a + 1,
                                     stats, unlocked_ids)
              IN [rest EXCEPT !.newly_unlocked = <<a>> \o @]
         ELSE IF a \notin unlocked_ids
                 /\ CheckAchievementRequirement(AchievementRow(a), stats)
                 /\ UnlockOutcome(db, c, a) = "TypeError"
         THEN [db |-> UnlockAchievementDb(db, c, a), newly_unlocked |-> <<>>]
         ELSE UnlockLoop(db, c, a + 1, stats, unlocked_ids)

(* AchievementController.check_and_unlock_achievements: the exception of the
   stats query leaves the call before anything is written *)
CheckAndUnlockResult(db, c) ==
    IF StatsQueryRaises
    THEN [db |-> db, newly_unlocked |-> <<>>, raised |-> "ProgrammingError"]
    ELSE LET r == UnlockLoop(db, c, 1, GetClientStats(db, c),
                             UnlockedAchievementIds(db, c))
         IN [db |-> r.db, newly_unlocked |-> r.newly_unlocked, raised |-> "none"]

----------------------------------------------------------------------------
(* The exercises and the routine of the model's database *)

Exercises == {1, 2, 3}
ExerciseBaseExp == 10
RoutineIds == {1}

(* Exercise.get_by_id finds a row *)
ExerciseExists(exercise_id) == exercise_id \in Exercises

(* Exercise.get_by_id: no keyword of a class bonus in the exercise type *)
ExerciseGetById(exercise_id) ==
    [exercise_id |-> exercise_id, base_exp |-> ExerciseBaseExp, exercise_type |-> {}]

(* The routine_exercises rows of the routines the administrator has built *)
RoutineExerciseRows ==
    [routine_id \in RoutineIds |->
        <<[exercise_id |-> 1, sets |-> 2, reps |-> 10, rest_seconds |-> 60],
          [exercise_id |-> 2, sets |-> 1, reps |-> 8, rest_seconds |-> 90]>>]

(* Routine.get_exercises: routine_exercises of the routine in order_position *)
RoutineGetExercises(db, routine_id) == db.routine_exercises[routine_id]

(* Routine.swap_exercise: the exercise of a slot replaced in the routine
   itself; ValueError, and nothing written, when the new exercise is already
   in the routine *)
RoutineSwapExerciseDb(db, routine_id, old_exercise_id, new_exercise_id) ==
    LET rows == db.routine_exercises[routine_id]
    IN IF \E i \in DOMAIN rows : rows[i].exercise_id = new_exercise_id
       THEN db
       ELSE [db EXCEPT !.routine_exercises[routine_id] =
               [i \in DOMAIN rows |->
                  IF rows[i].exercise_id = old_exercise_id
                  THEN [rows[i] EXCEPT !.exercise_id = new_exercise_id]
                  ELSE rows[i]]]

RECURSIVE SumSets(_)
SumSets(exercises) ==
    IF exercises = <<>> THEN 0
    ELSE Head(exercises).sets + SumSets(Tail(exercises))

EmptyBag == [x \in {} |-> 0]

(* One more copy of a row in a table without a uniqueness constraint *)
BagAdd(bag, row) ==
    [x \in DOMAIN bag \cup {row} |->
        IF x = row
        THEN (IF row \in DOMAIN bag THEN bag[row] + 1 ELSE 1)
        ELSE bag[x]]

(* The substitutions of a session as the dictionary old id -> new id *)
GetSessionSwaps(db, session_id) ==
    LET rows == {r \in db.session_swaps : r.session_id = session_id}
    IN [old \in {r.old_exercise_id : r \in rows} |->
          (CHOOSE r \in rows : r.old_exercise_id = old).new_exercise_id]

(* Saving a substitution for one session: the shared routine is not touched *)
SaveSessionSwapDb(db, session_id, old_id, new_id) ==
    [db EXCEPT !.session_swaps =
        {r \in @ : ~(r.session_id = session_id /\ r.old_exercise_id = old_id)}
        \cup {[session_id |-> session_id, old_exercise_id |-> old_id,
               new_exercise_id |-> new_id]}]

(* main.apply_session_swaps: the replacement keeps the sets of the slot *)
ApplySessionSwaps(exercises, swaps) ==
    IF DOMAIN swaps = {} THEN exercises
    ELSE [i \in DOMAIN exercises |->
            LET ex == exercises[i]
            IN IF ex.exercise_id \in DOMAIN swaps
                  /\ ExerciseExists(swaps[ex.exercise_id])
               THEN [exercise_id |-> swaps[ex.exercise_id], sets |-> ex.sets,
                     reps |-> ex.reps, rest_seconds |-> ex.rest_seconds]
               ELSE ex]

(* A substitution written into the routine through Routine.swap_exercise *)
ApiSwapExerciseDbEditsRoutine(db, session_id, old_id, new_id) ==
    IF session_id \in DOMAIN db.sessions
    THEN RoutineSwapExerciseDb(db, db.sessions[session_id].routine_id, old_id, new_id)
    ELSE db

(* main.api_swap_exercise, what it writes: the substitution of the session
   the cookie names, nothing without such a session *)
ApiSwapExerciseDb(db, session_id, old_id, new_id) ==
    IF session_id \in DOMAIN db.sessions
    THEN SaveSessionSwapDb(db, session_id, old_id, new_id)
    ELSE db

(* A lookup that leaves the date out of the key *)
GetSessionAnyDate(db, c, routine_id, workout_date) ==
    LET found == {i \in DOMAIN db.sessions :
                     /\ db.sessions[i].client_id = c
                     /\ db.sessions[i].routine_id = routine_id}
    IN IF found = {} THEN 0 ELSE CHOOSE i \in found : TRUE

(* WorkoutSessionController._get_session: the session id of the key, or 0 *)
GetSession(db, c, routine_id, workout_date) ==
    LET found == {i \in DOMAIN db.sessions :
                     /\ db.sessions[i].client_id = c
                     /\ db.sessions[i].routine_id = routine_id
                     /\ db.sessions[i].workout_date = workout_date}
    IN IF found = {} THEN 0 ELSE CHOOSE i \in found : TRUE

(* A start_or_resume that puts a completed session back in progress *)
StartOrResumeSessionReopens(db, c, routine_id, t) ==
    LET session_id == GetSession(db, c, routine_id, t)
    IN IF session_id # 0
       THEN [db |-> [db EXCEPT !.sessions[session_id].status = "in_progress"],
             status |-> "in_progress",
             session_id |-> session_id]
       ELSE [db |-> [db EXCEPT !.sessions =
                        Append(@, [client_id |-> c, routine_id |-> routine_id,
                                   workout_date |-> t, status |-> "in_progress",
                                   completed_at |-> NULL, total_exp_earned |-> 0])],
             status |-> "new",
             session_id |-> Len(db.sessions) + 1]

(* WorkoutSessionController.start_or_resume_session *)
StartOrResumeSession(db, c, routine_id, t) ==
    LET session_id == GetSession(db, c, routine_id, t)
    IN IF session_id # 0
       THEN [db |-> db,
             status |-> IF db.sessions[session_id].status = "completed"
                        THEN "completed" ELSE "in_progress",
             session_id |-> session_id]
       ELSE [db |-> [db EXCEPT !.sessions =
                        Append(@, [client_id |-> c, routine_id |-> routine_id,
                                   workout_date |-> t, status |-> "in_progress",
                                   completed_at |-> NULL, total_exp_earned |-> 0])],
             status |-> "new",
             session_id |-> Len(db.sessions) + 1]

(* WorkoutSessionController._get_completed_sets *)
GetCompletedSets(db, session_id) ==
    {r \in db.completions : r.session_id = session_id}

(* The completion rows of one (session, exercise, set number) *)
CompletionRows(db, session_id, exercise_id, set_number) ==
    {r \in db.completions : /\ r.session_id = session_id
                            /\ r.exercise_id = exercise_id
                            /\ r.set_number = set_number}

(* WorkoutSessionController.is_set_completed *)
IsSetCompleted(db, session_id, exercise_id, set_number) ==
    CompletionRows(db, session_id, exercise_id, set_number) # {}

(* A plain INSERT of the completion row *)
MarkSetCompletedInsertOnly(db, session_id, exercise_id, set_number, reps, weight) ==
    [db EXCEPT !.completions =
        @ \cup {[session_id |-> session_id, exercise_id |-> exercise_id,
                 set_number |-> set_number, reps_completed |-> reps,
                 weight_used |-> weight]}]

(* WorkoutSessionController.mark_set_completed: INSERT OR REPLACE under
   UNIQUE(session_id, exercise_id, set_number) *)
MarkSetCompletedDb(db, session_id, exercise_id, set_number, reps, weight) ==
    [db EXCEPT !.completions =
        (@ \ CompletionRows(db, session_id, exercise_id, set_number))
        \cup {[session_id |-> session_id, exercise_id |-> exercise_id,
               set_number |-> set_number, reps_completed |-> reps,
               weight_used |-> weight]}]

(* WorkoutSessionController.update_session_exp *)
UpdateSessionExpDb(db, session_id, exp_amount) ==
    IF session_id \in DOMAIN db.sessions
    THEN [db EXCEPT !.sessions[session_id].total_exp_earned = @ + exp_amount]
    ELSE db

(* WorkoutSessionController.complete_session *)
CompleteSessionDb(db, session_id, t) ==
    IF session_id \in DOMAIN db.sessions
    THEN [db EXCEPT !.sessions[session_id].status = "completed",
                    !.sessions[session_id].completed_at = t]
    ELSE db

(* WorkoutSessionController.get_session_progress(session_id, routine); the
   percentage completed / total * 100 is kept as the fraction num / den *)
GetSessionProgress(db, session_id, routine_id) ==
    LET exercises == RoutineGetExercises(db, routine_id)
        total_sets == SumSets(exercises)
        completed_count == Cardinality(GetCompletedSets(db, session_id))
    IN [total_sets |-> total_sets,
        completed_sets |-> completed_count,
        completion_percentage |->
            IF total_sets > 0
            THEN [num |-> completed_count * 100, den |-> total_sets]
            ELSE [num |-> 0, den |-> 1]]

(* percentage >= 100 and percentage = 100 on the fraction *)
AtLeast100(pct) == pct.num >= 100 * pct.den
Exactly100(pct) == pct.num = 100 * pct.den

(* WorkoutSessionController.check_and_complete_session *)
CheckAndCompleteSessionDb(db, session_id, routine_id, t) ==
    IF AtLeast100(GetSessionProgress(db, session_id, routine_id).completion_percentage)
    THEN CompleteSessionDb(db, session_id, t)
    ELSE db

(* WorkoutLogger.log_set: the award, then the workout_logs row.  Its session
   block is skipped: Exercise has no routine_id, so getattr gives None. *)
WorkoutLoggerLogSet(db, c, exercise_id, set_number, reps, weight, t) ==
    IF ~ExerciseExists(exercise_id)
    THEN [db |-> db, success |-> FALSE, exp_earned |-> 0]
    ELSE LET exercise == ExerciseGetById(exercise_id)
             exp_gained == AddExperienceGained(db, c, exercise.base_exp,
                                               exercise.exercise_type)
             db1 == AddExperienceDb(db, c, exercise.base_exp, exercise.exercise_type)
             row == [client_id |-> c, exercise_id |-> exercise_id,
                     workout_date |-> t, set_number |-> set_number,
                     reps_completed |-> reps, weight_used |-> weight,
                     exp_earned |-> exp_gained, measurement |-> "reps"]
         IN [db |-> [db1 EXCEPT !.workout_logs = BagAdd(@, row)],
             success |-> TRUE, exp_earned |-> exp_gained]

(* main.log_set: the whole request, served alone *)
LogSetRoute(db, workout_session_id, c, exercise_id, set_number, reps, weight, t) ==
    IF workout_session_id = 0
    THEN [db |-> db, success |-> FALSE, status |-> "No active workout session"]
    ELSE IF IsSetCompleted(db, workout_session_id, exercise_id, set_number)
    THEN [db |-> db, success |-> FALSE, status |-> "Set already logged"]
    ELSE LET result == WorkoutLoggerLogSet(db, c, exercise_id, set_number,
                                           reps, weight, t)
         IN IF result.success
            THEN [db |-> UpdateSessionExpDb(
                            MarkSetCompletedDb(result.db, workout_session_id,
                                               exercise_id, set_number, reps, weight),
                            workout_session_id, result.exp_earned),
                  success |-> TRUE, status |-> "logged"]
            ELSE [db |-> result.db, success |-> FALSE, status |-> "Exercise not found"]

(* The log_set requests in flight *)
Threads == {1, 2}
IdleThread ==
    [pc |-> "idle", client_id |-> 0, session_id |-> 0, exercise_id |-> 0,
     set_number |-> 0, reps |-> 0, data |-> NewGamRow, exp_gained |-> 0]

----------------------------------------------------------------------------
(* PhysicalTestController.  Scores and thresholds of Sprint are in tenths of
   a second, those of the other tests in their own unit. *)

(* The physical_tests rows DatabaseManager._initialize_default_data inserts *)
PhysicalTests == {"Push-ups", "Squats", "Sit-ups", "High Jump", "Sprint"}

(* PhysicalTestController.TEST_RANKINGS *)
TEST_RANKINGS ==
    [t \in PhysicalTests |->
        CASE t = "Push-ups" ->
               [SS |-> 60, S |-> 50, A |-> 40, B |-> 30, C |-> 20, D |-> 10, E |-> 0]
          [] t = "Squats" ->
               [SS |-> 100, S |-> 80, A |-> 60, B |-> 45, C |-> 30, D |-> 15, E |-> 0]
          [] t = "Sit-ups" ->
               [SS |-> 80, S |-> 65, A |-> 50, B |-> 35, C |-> 25, D |-> 15, E |-> 0]
          [] t = "High Jump" ->
               [SS |-> 70, S |-> 60, A |-> 50, B |-> 40, C |-> 30, D |-> 20, E |-> 0]
          [] OTHER ->
               [SS |-> 120, S |-> 135, A |-> 150, B |-> 170, C |-> 190, D |-> 220,
                E |-> 9990]]

(* PhysicalTestController.RANK_POINTS *)
RANK_POINTS ==
    [SS |-> 200, S |-> 150, A |-> 100, B |-> 70, C |-> 40, D |-> 20, E |-> 0]

(* The ranks the loops of _calculate_rank try, in order *)
RanksTried == <<"SS", "S", "A", "B", "C", "D">>

(* The loop of _calculate_rank from position i on *)
RECURSIVE FirstRankMet(_, _, _, _)
FirstRankMet(thresholds, score, lower_is_better, i) ==
    IF i > Len(RanksTried) THEN "E"
    ELSE IF (IF lower_is_better
             THEN score <= thresholds[RanksTried[i]]
             ELSE score >= thresholds[RanksTried[i]])
         THEN RanksTried[i]
         ELSE FirstRankMet(thresholds, score, lower_is_better, i + 1)

(* A rank calculation whose comparisons are strict *)
CalculateRankStrict(test_name, score) ==
    IF test_name \notin DOMAIN TEST_RANKINGS THEN "E"
    ELSE FirstRankMet(TEST_RANKINGS[test_name],
                      IF test_name = "Sprint" THEN score + 1 ELSE score - 1,
                      test_name = "Sprint", 1)

(* PhysicalTestController._calculate_rank *)
CalculateRank(test_name, score) ==
    IF test_name \notin DOMAIN TEST_RANKINGS THEN "E"
    ELSE FirstRankMet(TEST_RANKINGS[test_name], score, test_name = "Sprint", 1)

(* PhysicalTestController._calculate_overall_rank *)
CalculateOverallRank(total_points) ==
    IF total_points >= 900 THEN "SS"
    ELSE IF total_points >= 650 THEN "S"
    ELSE IF total_points >= 450 THEN "A"
    ELSE IF total_points >= 300 THEN "B"
    ELSE IF total_points >= 150 THEN "C"
    ELSE IF total_points >= 50 THEN "D"
    ELSE "E"

(* GamificationController.update_rank: the ranks it accepts *)
ValidRanks == {"S", "A", "B", "C", "D", "E", "F"}

(* GamificationController.update_rank: what it returns, "None" for None *)
UpdateRankResult(new_rank) ==
    IF new_rank \in ValidRanks THEN new_rank ELSE "None"

(* GamificationController.update_rank: the database after the call *)
UpdateRankDb(db, c, new_rank) ==
    IF new_rank \in ValidRanks
    THEN [db EXCEPT !.gam[c].rank = new_rank]
    ELSE db

(* PhysicalTestController.record_test_result *)
RecordTestResult(db, c, test_name, score, t) ==
    IF test_name \notin PhysicalTests
    THEN [db |-> db, success |-> FALSE, rank |-> "none", points |-> 0]
    ELSE LET rank == CalculateRank(test_name, score)
             points == RANK_POINTS[rank]
             row == [client_id |-> c, test_name |-> test_name, test_date |-> t,
                     score |-> score, rank_achieved |-> rank]
         IN [db |-> AddExperienceDb([db EXCEPT !.test_results = BagAdd(@, row)],
                                    c, points, {}),
             success |-> TRUE, rank |-> rank, points |-> points]

(* The loop of complete_full_assessment over test_scores, a sequence of
   <<test name, score>> in the order of the dictionary *)
RECURSIVE RecordAll(_, _, _, _)
RecordAll(db, c, test_scores, t) ==
    IF test_scores = <<>>
    THEN [db |-> db, total_points |-> 0]
    ELSE LET result == RecordTestResult(db, c, Head(test_scores)[1],
                                        Head(test_scores)[2], t)
             rest == RecordAll(result.db, c, Tail(test_scores), t)
         IN [db |-> rest.db,
             total_points |-> rest.total_points
                              + (IF result.success THEN result.points ELSE 0)]

(* PhysicalTestController.complete_full_assessment *)
CompleteFullAssessmentResult(db, c, test_scores, t) ==
    LET recorded == RecordAll(db, c, test_scores, t)
        overall_rank == CalculateOverallRank(recorded.total_points)
    IN [db |-> UpdateRankDb(recorded.db, c, overall_rank),
        total_points |-> recorded.total_points,
        overall_rank |-> overall_rank,
        rank_updated_to |-> UpdateRankResult(overall_rank)]

----------------------------------------------------------------------------
(* Writing a database value back to the tables *)
Store(db) ==
    /\ attendance' = db.attendance
    /\ streaks' = db.streaks
    /\ gam' = db.gam
    /\ client_achievements' = db.client_achievements
    /\ workout_logs' = db.workout_logs
    /\ sessions' = db.sessions
    /\ completions' = db.completions
    /\ session_swaps' = db.session_swaps
    /\ test_results' = db.test_results
    /\ routine_exercises' = db.routine_exercises

(* The clock moves to the next day *)
NextDay ==
    /\ today < MaxDay
    /\ today' = today + 1
    /\ lastOp' = [NoOp EXCEPT !.prev_op = lastOp.op, !.op = "next_day"]
    /\ UNCHANGED <<available, attendance, streaks, gam, client_achievements,
                   workout_logs, sessions, completions, session_swaps,
                   test_results, routine_exercises, cookie, threads>>

(* AttendanceController.check_in(client_id, check_in_date) *)
CheckIn(c, d) ==
    LET db == CheckInDb(Db, c, d, today, available[c])
    IN /\ Store(db)
       /\ lastOp' = [NoOp EXCEPT !.prev_op = lastOp.op, !.op = "check_in", !.client = c, !.date = d,
                                 !.ok = ~HasAttendance(Db, c, d),
                                 !.pre_streak = streaks[c], !.pre_gam = gam[c]]
       /\ UNCHANGED <<today, available, cookie, threads>>

(* The admin check-in route: check_in for today, then update_streak again *)
AdminCheckin(c) ==
    LET mid == CheckInDb(Db, c, today, today, available[c])
        db == DbUpdateStreak(mid, c, today, available[c])
    IN /\ Store(db)
       /\ lastOp' = [NoOp EXCEPT !.prev_op = lastOp.op, !.op = "admin_checkin", !.client = c, !.date = today,
                                 !.ok = ~HasAttendance(Db, c, today),
                                 !.pre_streak = streaks[c], !.mid_streak = mid.streaks[c],
                                 !.pre_gam = gam[c]]
       /\ UNCHANGED <<today, available, cookie, threads>>

(* GamificationController.add_experience(client_id, base_exp, exercise_type) *)
AddExperience(c, base_exp, exercise_type) ==
    LET db == AddExperienceDb(Db, c, base_exp, exercise_type)
    IN /\ Store(db)
       /\ lastOp' = [NoOp EXCEPT !.prev_op = lastOp.op, !.op = "add_experience", !.client = c,
                                 !.ok = gam[c].present,
                                 !.arg = base_exp,
                                 !.mult = GetStreakMultiplier(Db, c),
                                 !.class_mult =
                                     GetClassMultiplier(gam[c].client_class,
                                                        exercise_type),
                                 !.gained = AddExperienceGained(Db, c, base_exp, exercise_type),
                                 !.pre_streak = streaks[c], !.pre_gam = gam[c]]
       /\ UNCHANGED <<today, available, cookie, threads>>

(* AchievementController.unlock_achievement(client_id, achievement_id) *)
UnlockAchievement(c, a) ==
    LET db == UnlockAchievementDb(Db, c, a)
        outcome == UnlockOutcome(Db, c, a)
    IN /\ Store(db)
       /\ lastOp' = [NoOp EXCEPT !.prev_op = lastOp.op, !.op = "unlock_achievement",
                                 !.client = c, !.arg = a,
                                 !.ok = (outcome = "success"),
                                 !.raised = IF outcome \in {"IntegrityError", "TypeError"}
                                            THEN outcome ELSE "none",
                                 !.pre_count = IF a \in AchievementIds
                                               THEN client_achievements[c][a] ELSE 0,
                                 !.pre_gam = gam[c]]
       /\ UNCHANGED <<today, available, cookie, threads>>

(* AchievementController.check_and_unlock_achievements(client_id) *)
CheckAndUnlockAchievements(c) ==
    LET r == CheckAndUnlockResult(Db, c)
    IN /\ Store(r.db)
       /\ lastOp' = [NoOp EXCEPT !.prev_op = lastOp.op,
                                 !.op = "check_and_unlock_achievements",
                                 !.client = c, !.ok = (r.raised = "none"),
                                 !.raised = r.raised, !.unlocked = r.newly_unlocked,
                                 !.pre_gam = gam[c]]
       /\ UNCHANGED <<today, available, cookie, threads>>

(* AchievementController._check_achievement_requirement applied to the row of
   achievement a and the client's stats, the rank being the one given *)
CheckRequirement(c, a, rank) ==
    /\ lastOp' = [NoOp EXCEPT !.prev_op = lastOp.op, !.op = "check_requirement",
                              !.client = c, !.arg = a, !.rank = rank,
                              !.ok = CheckAchievementRequirement(
                                         AchievementRow(a),
                                         [GetClientStats(Db, c) EXCEPT !.rank = rank])]
    /\ UNCHANGED <<today, available, attendance, streaks, gam, client_achievements,
                   workout_logs, sessions, completions, session_swaps,
                   test_results, routine_exercises, cookie, threads>>

(* main.workout: GET /workout/<routine_id> *)
Workout(c, routine_id) ==
    LET session_info == StartOrResumeSession(Db, c, routine_id, today)
    IN /\ routine_id \in RoutineIds
       /\ Store(session_info.db)
       /\ cookie' = IF session_info.status = "completed"
                    THEN cookie
                    ELSE [cookie EXCEPT ![c] = session_info.session_id]
       /\ lastOp' = [NoOp EXCEPT !.prev_op = lastOp.op, !.op = "workout",
                                 !.client = c, !.ok = (session_info.status # "completed"),
                                 !.session_id = session_info.session_id,
                                 !.status = session_info.status]
       /\ UNCHANGED <<today, available, threads>>

(* main.log_set: POST /log_set, served with no other request in flight *)
LogSet(c, exercise_id, set_number, reps, weight) ==
    LET r == LogSetRoute(Db, cookie[c], c, exercise_id, set_number, reps, weight, today)
    IN /\ Store(r.db)
       /\ lastOp' = [NoOp EXCEPT !.prev_op = lastOp.op, !.op = "log_set",
                                 !.client = c, !.ok = r.success, !.status = r.status,
                                 !.session_id = cookie[c],
                                 !.exercise_id = exercise_id,
                                 !.set_number = set_number,
                                 !.reps = reps, !.weight = weight,
                                 !.pre_gam = gam[c],
                                 !.pre_count = Cardinality(GetCompletedSets(Db, cookie[c]))]
       /\ UNCHANGED <<today, available, cookie, threads>>

(* main.finish_workout: POST /finish_workout *)
FinishWorkout(c) ==
    /\ Store(IF cookie[c] = 0 THEN Db ELSE CompleteSessionDb(Db, cookie[c], today))
    /\ cookie' = [cookie EXCEPT ![c] = 0]
    /\ lastOp' = [NoOp EXCEPT !.prev_op = lastOp.op, !.op = "finish_workout",
                              !.client = c, !.ok = (cookie[c] # 0),
                              !.session_id = cookie[c],
                              !.pre_count = Cardinality(GetCompletedSets(Db, cookie[c]))]
    /\ UNCHANGED <<today, available, threads>>

(* main.api_swap_exercise: POST /api/swap_exercise *)
SwapExercise(c, old_id, new_id) ==
    LET session_id == cookie[c]
        found == session_id \in DOMAIN sessions
    IN /\ Store(ApiSwapExerciseDb(Db, session_id, old_id, new_id))
       /\ lastOp' = [NoOp EXCEPT !.prev_op = lastOp.op, !.op = "swap_exercise",
                                 !.client = c, !.ok = found,
                                 !.session_id = session_id,
                                 !.exercise_id = old_id, !.arg = new_id]
       /\ UNCHANGED <<today, available, cookie, threads>>

(* WorkoutSessionController.check_and_complete_session(session_id, routine_id) *)
CheckAndCompleteSession(session_id, routine_id) ==
    /\ session_id \in DOMAIN sessions
    /\ Store(CheckAndCompleteSessionDb(Db, session_id, routine_id, today))
    /\ lastOp' = [NoOp EXCEPT !.prev_op = lastOp.op,
                              !.op = "check_and_complete_session",
                              !.session_id = session_id,
                              !.ok = AtLeast100(GetSessionProgress(Db, session_id,
                                                  routine_id).completion_percentage),
                              !.pre_count = Cardinality(GetCompletedSets(Db, session_id))]
    /\ UNCHANGED <<today, available, cookie, threads>>

(* WorkoutSessionController.mark_set_completed(session_id, exercise_id,
   set_number, reps, weight) *)
MarkSetCompleted(session_id, exercise_id, set_number, reps, weight) ==
    /\ Store(MarkSetCompletedDb(Db, session_id, exercise_id, set_number, reps, weight))
    /\ lastOp' = [NoOp EXCEPT !.prev_op = lastOp.op, !.op = "mark_set_completed",
                              !.session_id = session_id,
                              !.exercise_id = exercise_id,
                              !.set_number = set_number,
                              !.reps = reps, !.weight = weight,
                              !.pre_rows = CompletionRows(Db, session_id, exercise_id,
                                                          set_number),
                              !.pre_count = Cardinality(GetCompletedSets(Db, session_id))]
    /\ UNCHANGED <<today, available, cookie, threads>>

(* WorkoutSessionController.update_session_exp(session_id, exp_amount) *)
UpdateSessionExp(session_id, exp_amount) ==
    /\ Store(UpdateSessionExpDb(Db, session_id, exp_amount))
    /\ lastOp' = [NoOp EXCEPT !.prev_op = lastOp.op, !.op = "update_session_exp",
                              !.session_id = session_id, !.arg = exp_amount,
                              !.ok = TRUE]
    /\ UNCHANGED <<today, available, cookie, threads>>

(* WorkoutSessionController.complete_session(session_id) *)
CompleteSession(session_id) ==
    /\ Store(CompleteSessionDb(Db, session_id, today))
    /\ lastOp' = [NoOp EXCEPT !.prev_op = lastOp.op, !.op = "complete_session",
                              !.session_id = session_id, !.ok = TRUE]
    /\ UNCHANGED <<today, available, cookie, threads>>

(* PhysicalTestController.record_test_result(client_id, test_name, score) *)
RecordTest(c, test_name, score) ==
    LET r == RecordTestResult(Db, c, test_name, score, today)
    IN /\ Store(r.db)
       /\ lastOp' = [NoOp EXCEPT !.prev_op = lastOp.op, !.op = "record_test_result",
                                 !.client = c, !.ok = r.success,
                                 !.test_name = test_name, !.arg = score,
                                 !.rank = r.rank, !.points = r.points,
                                 !.pre_gam = gam[c]]
       /\ UNCHANGED <<today, available, cookie, threads>>

(* PhysicalTestController.complete_full_assessment(client_id, test_scores) *)
CompleteFullAssessment(c, test_scores) ==
    LET r == CompleteFullAssessmentResult(Db, c, test_scores, today)
    IN /\ Store(r.db)
       /\ lastOp' = [NoOp EXCEPT !.prev_op = lastOp.op,
                                 !.op = "complete_full_assessment",
                                 !.client = c, !.ok = TRUE,
                                 !.test_names = {test_scores[i][1] :
                                                   i \in DOMAIN test_scores},
                                 !.rank = r.overall_rank, !.points = r.total_points,
                                 !.status = r.rank_updated_to,
                                 !.pre_gam = gam[c]]
       /\ UNCHANGED <<today, available, cookie, threads>>

(* GamificationController.update_streak(client_id, check_in_date) *)
GamUpdateStreak(c, check_in_date) ==
    /\ Store(GamUpdateStreakDb(Db, c, check_in_date))
    /\ lastOp' = [NoOp EXCEPT !.prev_op = lastOp.op, !.op = "gam_update_streak",
                              !.client = c, !.date = check_in_date,
                              !.ok = streaks[c].present,
                              !.pre_streak = streaks[c], !.pre_gam = gam[c]]
    /\ UNCHANGED <<today, available, cookie, threads>>

(* main.choose_class: GamificationController.unlock_class(client_id,
   class_name) *)
ChooseClass(c, class_name) ==
    /\ Store(UnlockClassDb(Db, c, class_name))
    /\ lastOp' = [NoOp EXCEPT !.prev_op = lastOp.op, !.op = "unlock_class",
                              !.client = c, !.class_name = class_name,
                              !.ok = UnlockClassResult(Db, c, class_name).success,
                              !.status = UnlockClassResult(Db, c, class_name).message,
                              !.pre_streak = streaks[c], !.pre_gam = gam[c]]
    /\ UNCHANGED <<today, available, cookie, threads>>

(* main.log_set in a worker thread, statement by statement.  First the cookie
   and the is_set_completed query *)
LogSetCheck(t, c, exercise_id, set_number, reps) ==
    /\ threads[t].pc = "idle"
    /\ cookie[c] # 0
    /\ ExerciseExists(exercise_id)
    /\ threads' = IF IsSetCompleted(Db, cookie[c], exercise_id, set_number)
                  THEN threads
                  ELSE [threads EXCEPT ![t] =
                           [IdleThread EXCEPT !.pc = "award_read", !.client_id = c,
                                              !.session_id = cookie[c],
                                              !.exercise_id = exercise_id,
                                              !.set_number = set_number,
                                              !.reps = reps]]
    /\ lastOp' = [NoOp EXCEPT !.prev_op = lastOp.op, !.op = "log_set", !.client = c,
                              !.session_id = cookie[c],
                              !.exercise_id = exercise_id, !.set_number = set_number,
                              !.status = IF IsSetCompleted(Db, cookie[c], exercise_id,
                                                           set_number)
                                         THEN "Set already logged" ELSE "checked"]
    /\ UNCHANGED <<today, available, attendance, streaks, gam, client_achievements,
                   workout_logs, sessions, completions, session_swaps,
                      test_results, routine_exercises, cookie>>

(* add_experience, its SELECTs: the row and the multipliers are read *)
LogSetAwardRead(t) ==
    LET th == threads[t]
        exercise == ExerciseGetById(th.exercise_id)
    IN /\ th.pc = "award_read"
       /\ threads' = [threads EXCEPT
                        ![t].pc = "award_write",
                        ![t].data = gam[th.client_id],
                        ![t].exp_gained = AddExperienceGained(Db, th.client_id,
                                              exercise.base_exp, exercise.exercise_type)]
       /\ lastOp' = [NoOp EXCEPT !.prev_op = lastOp.op, !.op = "log_set",
                                 !.client = th.client_id, !.status = "award_read"]
       /\ UNCHANGED <<today, available, attendance, streaks, gam, client_achievements,
                      workout_logs, sessions, completions, session_swaps,
                      test_results, routine_exercises, cookie>>

(* add_experience, its UPDATE: the values computed from the row read *)
LogSetAwardWrite(t) ==
    LET th == threads[t]
        new == GamRowAfterExp(th.data, th.exp_gained)
    IN /\ th.pc = "award_write"
       /\ gam' = [gam EXCEPT ![th.client_id].current_exp = new.current_exp,
                             ![th.client_id].total_exp = new.total_exp,
                             ![th.client_id].current_level = new.current_level]
       /\ threads' = [threads EXCEPT ![t].pc = "log_insert"]
       /\ lastOp' = [NoOp EXCEPT !.prev_op = lastOp.op, !.op = "log_set",
                                 !.client = th.client_id, !.status = "award_write"]
       /\ UNCHANGED <<today, available, attendance, streaks, client_achievements,
                      workout_logs, sessions, completions, session_swaps,
                      test_results, routine_exercises, cookie>>

(* WorkoutLogger.log_set, its INSERT INTO workout_logs *)
LogSetLogInsert(t) ==
    LET th == threads[t]
    IN /\ th.pc = "log_insert"
       /\ workout_logs' = BagAdd(workout_logs,
                             [client_id |-> th.client_id, exercise_id |-> th.exercise_id,
                              workout_date |-> today, set_number |-> th.set_number,
                              reps_completed |-> th.reps, weight_used |-> 0,
                              exp_earned |-> th.exp_gained, measurement |-> "reps"])
       /\ threads' = [threads EXCEPT ![t].pc = "mark"]
       /\ lastOp' = [NoOp EXCEPT !.prev_op = lastOp.op, !.op = "log_set",
                                 !.client = th.client_id, !.status = "log_insert"]
       /\ UNCHANGED <<today, available, attendance, streaks, gam, client_achievements,
                      sessions, completions, session_swaps, test_results, routine_exercises, cookie>>

(* main.log_set, its mark_set_completed *)
LogSetMark(t) ==
    LET th == threads[t]
    IN /\ th.pc = "mark"
       /\ Store(MarkSetCompletedDb(Db, th.session_id, th.exercise_id, th.set_number,
                                   th.reps, 0))
       /\ threads' = [threads EXCEPT ![t].pc = "session_exp"]
       /\ lastOp' = [NoOp EXCEPT !.prev_op = lastOp.op, !.op = "log_set",
                                 !.client = th.client_id, !.status = "mark"]
       /\ UNCHANGED <<today, available, cookie>>

(* main.log_set, its update_session_exp, and the response *)
LogSetSessionExp(t) ==
    LET th == threads[t]
    IN /\ th.pc = "session_exp"
       /\ Store(UpdateSessionExpDb(Db, th.session_id, th.exp_gained))
       /\ threads' = [threads EXCEPT ![t] = IdleThread]
       /\ lastOp' = [NoOp EXCEPT !.prev_op = lastOp.op, !.op = "log_set",
                                 !.client = th.client_id, !.ok = TRUE,
                                 !.session_id = th.session_id,
                                 !.exercise_id = th.exercise_id,
                                 !.set_number = th.set_number, !.status = "logged"]
       /\ UNCHANGED <<today, available, cookie>>

----------------------------------------------------------------------------
(* The state after onboarding: Client.save creates both rows *)
InitTables ==
    /\ attendance = {}
    /\ streaks = [c \in Clients |-> NewStreakRow]
    /\ gam = [c \in Clients |-> NewGamRow]
    /\ client_achievements = [c \in Clients |-> [a \in AchievementIds |-> 0]]
    /\ workout_logs = EmptyBag
    /\ sessions = <<>>
    /\ completions = {}
    /\ session_swaps = {}
    /\ test_results = EmptyBag
    /\ routine_exercises = RoutineExerciseRows
    /\ cookie = [c \in Clients |-> 0]
    /\ threads = [t \in Threads |-> IdleThread]
    /\ lastOp = NoOp

(* Streak engine: check-ins over several days, and awards that read the
   stored multiplier *)
BaseExpsStreak == {10}

InitStreak ==
    /\ today = 1
    /\ available \in [Clients -> AvailabilityChoices]
    /\ available[2] = {}
    /\ InitTables

NextStreak ==
    \/ NextDay
    \/ \E d \in {today - 1, today} : d >= 1 /\ CheckIn(1, d)
    \/ AdminCheckin(1)
    \/ \E b \in BaseExpsStreak :
          /\ gam[1].total_exp < MaxStreakAwards * 10
          /\ AddExperience(1, b, {})

SpecStreak == InitStreak /\ [][NextStreak]_vars

(* Progression ledger: awards of several sizes to one client *)
BaseExps == {50, 100, 150, 1000}

InitExp ==
    /\ today = 1
    /\ available = [c \in Clients |-> {}]
    /\ InitTables

NextExp ==
    \E b \in BaseExps :
        /\ gam[1].total_exp + b <= MaxTotalExp
        /\ AddExperience(1, b, {})

SpecExp == InitExp /\ [][NextExp]_vars

(* Achievement evaluator: unlocks, evaluations and awards for one client *)
UnlockIds == {1, 18, 31, 44}
BaseExpsAch == {100, 600}

InitAch ==
    /\ today = 1
    /\ available = [c \in Clients |-> {}]
    /\ InitTables

NextAch ==
    \/ \E a \in UnlockIds : UnlockAchievement(1, a)
    \/ CheckAndUnlockAchievements(1)
    \/ \E b \in BaseExpsAch :
          /\ gam[1].total_exp + b <= MaxTotalExp
          /\ AddExperience(1, b, {})

SpecAch == InitAch /\ [][NextAch]_vars

(* Workout-session machine: one client's browser on one day *)
MaxSetNumber == 2
ExerciseInputs == {1, 2, 3, 4}
SwapTargets == {3}

InitSession ==
    /\ today = 1
    /\ available = [c \in Clients |-> {}]
    /\ InitTables

NextSession ==
    \/ Workout(1, 1)
    \/ \E e \in ExerciseInputs : \E n \in 1..MaxSetNumber : LogSet(1, e, n, 10, 0)
    \/ FinishWorkout(1)
    \/ \E old \in {1, 2} : \E new \in SwapTargets : SwapExercise(1, old, new)
    \/ CheckAndCompleteSession(1, 1)

SpecSession == InitSession /\ [][NextSession]_vars

(* Set completions written through the controller *)
(* The (reps, weight) pairs a set is recorded with *)
RecordInputs == {<<8, 0>>, <<10, 0>>, <<10, 20>>}

InitRecord ==
    /\ today = 1
    /\ available = [c \in Clients |-> {}]
    /\ InitTables

NextRecord ==
    \/ Workout(1, 1)
    \/ \E e \in {1, 2} : \E n \in 1..MaxSetNumber :
       \E rw \in RecordInputs :
          /\ sessions # <<>>
          /\ MarkSetCompleted(1, e, n, rw[1], rw[2])

SpecRecord == InitRecord /\ [][NextRecord]_vars

(* Two log_set requests of one browser served by two worker threads *)
InitRace ==
    /\ today = 1
    /\ available = [c \in Clients |-> {}]
    /\ InitTables

NextRace ==
    \/ Workout(1, 1)
    \/ \E t \in Threads : \E n \in 1..MaxSetNumber : LogSetCheck(t, 1, 1, n, 10)
    \/ \E t \in Threads : LogSetAwardRead(t)
    \/ \E t \in Threads : LogSetAwardWrite(t)
    \/ \E t \in Threads : LogSetLogInsert(t)
    \/ \E t \in Threads : LogSetMark(t)
    \/ \E t \in Threads : LogSetSessionExp(t)

SpecRace == InitRace /\ [][NextRace]_vars

(* Session lifecycle through the controller: start or resume, record a set,
   accrue experience, complete, for one client over two days *)
MaxSessionDay == 2
MaxSessionExp == 10

InitLifecycle ==
    /\ today = 1
    /\ available = [c \in Clients |-> {}]
    /\ InitTables

NextLifecycle ==
    \/ Workout(1, 1)
    \/ \E sid \in DOMAIN sessions : MarkSetCompleted(sid, 1, 1, 10, 0)
    \/ \E sid \in DOMAIN sessions :
          /\ sessions[sid].total_exp_earned + ExerciseBaseExp <= MaxSessionExp
          /\ UpdateSessionExp(sid, ExerciseBaseExp)
    \/ \E sid \in DOMAIN sessions : CompleteSession(sid)
    \/ today < MaxSessionDay /\ NextDay

SpecLifecycle == InitLifecycle /\ [][NextLifecycle]_vars

(* Progression ledger with large awards: levels up to the loop's limit *)
MaxLevelTotalExp == 30000
BaseExpsLevel == {1000, 5000, 12000}

InitLevel ==
    /\ today = 1
    /\ available = [c \in Clients |-> {}]
    /\ InitTables

NextLevel ==
    \E b \in BaseExpsLevel :
        /\ gam[1].total_exp + b <= MaxLevelTotalExp
        /\ AddExperience(1, b, {})

SpecLevel == InitLevel /\ [][NextLevel]_vars

(* Full assessments of one client: each score at the bottom, in the middle
   or at the top of its scale *)
MaxAssessments == 2
TestsPerAssessment == 5
RepScores == {0, 45, 100}
SprintScores == {250, 150, 110}

InitAssess ==
    /\ today = 1
    /\ available = [c \in Clients |-> {}]
    /\ InitTables

NextAssess ==
    \E pushups, others \in RepScores : \E sprint \in SprintScores :
        /\ CountRows(test_results, DOMAIN test_results)
              < TestsPerAssessment * MaxAssessments
        /\ CompleteFullAssessment(1, <<<<"Push-ups", pushups>>, <<"Squats", others>>,
                                      <<"Sit-ups", others>>, <<"High Jump", others>>,
                                      <<"Sprint", sprint>>>>)

SpecAssess == InitAssess /\ [][NextAssess]_vars

(* Substitutions in the sessions of two clients on the same routine; the
   replacement is an exercise outside the routine, one inside it or one that
   does not exist *)
SwapInputs == {2, 3, 4}

InitSwap ==
    /\ today = 1
    /\ available = [c \in Clients |-> {}]
    /\ InitTables

NextSwap ==
    \/ \E c \in Clients : Workout(c, 1)
    \/ \E c \in Clients : \E old \in {1, 2} : \E new \in SwapInputs :
          SwapExercise(c, old, new)

SpecSwap == InitSwap /\ [][NextSwap]_vars

(* The requirement check on every achievement of the catalog and every rank
   a client can hold *)
RankInputs == {"E", "D", "C", "B", "A", "S", "SS"}

InitRequirement ==
    /\ today = 1
    /\ available = [c \in Clients |-> {}]
    /\ InitTables

NextRequirement ==
    \E a \in AchievementIds : \E rank \in RankInputs : CheckRequirement(1, a, rank)

SpecRequirement == InitRequirement /\ [][NextRequirement]_vars

(* Sets logged by two clients and the achievement evaluation of the first *)
InitStats ==
    /\ today = 1
    /\ available = [c \in Clients |-> {}]
    /\ InitTables

NextStats ==
    \/ \E c \in Clients : Workout(c, 1)
    \/ \E c \in Clients : \E e \in {1, 2} : LogSet(c, e, 1, 10, 0)
    \/ CheckAndUnlockAchievements(1)

SpecStats == InitStats /\ [][NextStats]_vars

(* Unlocks and awards for a registered client and for a client id that has
   no client_gamification and no client_streaks row *)
UnregisteredClients == {2}
BaseExpsUnregistered == {100}

InitUnregistered ==
    /\ today = 1
    /\ available = [c \in Clients |-> {}]
    /\ attendance = {}
    /\ streaks = [c \in Clients |->
                     IF c \in UnregisteredClients
                     THEN [NewStreakRow EXCEPT !.present = FALSE]
                     ELSE NewStreakRow]
    /\ gam = [c \in Clients |->
                 IF c \in UnregisteredClients
                 THEN [NewGamRow EXCEPT !.present = FALSE]
                 ELSE NewGamRow]
    /\ client_achievements = [c \in Clients |-> [a \in AchievementIds |-> 0]]
    /\ workout_logs = EmptyBag
    /\ sessions = <<>>
    /\ completions = {}
    /\ session_swaps = {}
    /\ test_results = EmptyBag
    /\ routine_exercises = RoutineExerciseRows
    /\ cookie = [c \in Clients |-> 0]
    /\ threads = [t \in Threads |-> IdleThread]
    /\ lastOp = NoOp

NextUnregistered ==
    \/ \E c \in Clients, a \in UnlockIds : UnlockAchievement(c, a)
    \/ \E c \in Clients, b \in BaseExpsUnregistered :
          /\ gam[c].total_exp + b <= MaxTotalExp
          /\ AddExperience(c, b, {})

SpecUnregistered == InitUnregistered /\ [][NextUnregistered]_vars

(* Assessments whose dictionary holds two names, known or not *)
MaxDisciplineRows == 4
DisciplineInputs == {"Push-ups", "Squats", "Plank"}

InitDiscipline ==
    /\ today = 1
    /\ available = [c \in Clients |-> {}]
    /\ InitTables

NextDiscipline ==
    \E n1, n2 \in DisciplineInputs : \E s1, s2 \in RepScores :
        /\ n1 # n2
        /\ CountRows(test_results, DOMAIN test_results) < MaxDisciplineRows
        /\ CompleteFullAssessment(1, <<<<n1, s1>>, <<n2, s2>>>>)

SpecDiscipline == InitDiscipline /\ [][NextDiscipline]_vars

(* Single test results: every score of a range for every test *)
MaxScore == 230
TestNameInputs == PhysicalTests \cup {"Plank"}

InitRank ==
    /\ today = 1
    /\ available = [c \in Clients |-> {}]
    /\ InitTables

NextRank ==
    \E test_name \in TestNameInputs : \E score \in -1..MaxScore :
        /\ test_results = EmptyBag
        /\ lastOp.op = "init"
        /\ RecordTest(1, test_name, score)

SpecRank == InitRank /\ [][NextRank]_vars

(* Both streak updates on one client: check-ins, and the controller's update
   with the day's or the previous day's date *)
MaxBothDay == 6

InitBoth ==
    /\ today = 1
    /\ available \in [Clients -> AvailabilityChoices]
    /\ available[2] = {}
    /\ InitTables

NextBoth ==
    \/ today < MaxBothDay /\ NextDay
    \/ CheckIn(1, today)
    \/ AdminCheckin(1)
    \/ \E d \in {today - 1, today} : d >= 1 /\ GamUpdateStreak(1, d)

SpecBoth == InitBoth /\ [][NextBoth]_vars

(* The controller's streak update with any check-in date, over enough days to
   reach the multiplier's cap and one day beyond *)
MaxMultDay == 12

InitMult ==
    /\ today = 1
    /\ available = [c \in Clients |-> {}]
    /\ InitTables

NextMult ==
    \E d \in 1..MaxMultDay : GamUpdateStreak(1, d)

SpecMult == InitMult /\ [][NextMult]_vars

(* Class choice: awards with and without a matching exercise type, and class
   choices with valid and invalid names *)
MaxClassTotalExp == 1200
BaseExpsClass == {100, 700}
ExerciseTypes == {{}, {"strength"}, {"balance"}}
ClassNameInputs == {"Warrior", "Mage", "Bard"}

InitClass ==
    /\ today = 1
    /\ available = [c \in Clients |-> {}]
    /\ InitTables

NextClass ==
    \/ \E b \in BaseExpsClass, t \in ExerciseTypes :
          /\ gam[1].total_exp + b <= MaxClassTotalExp
          /\ AddExperience(1, b, t)
    \/ \E n \in ClassNameInputs : ChooseClass(1, n)

SpecClass == InitClass /\ [][NextClass]_vars

(* Awards under both multipliers: the controller's streak update on
   consecutive days, one class choice, and awards with a matching exercise
   type *)
MaxAwardDay == 6
MaxAwardTotalExp == 800
BaseExpsAward == {100, 700}

InitAward ==
    /\ today = 1
    /\ available = [c \in Clients |-> {}]
    /\ InitTables

NextAward ==
    \/ today < MaxAwardDay /\ NextDay
    \/ GamUpdateStreak(1, today)
    \/ \E b \in BaseExpsAward :
          /\ gam[1].total_exp + b <= MaxAwardTotalExp
          /\ AddExperience(1, b, {"strength"})
    \/ ChooseClass(1, "Warrior")

SpecAward == InitAward /\ [][NextAward]_vars

----------------------------------------------------------------------------
(* Claims *)

StreakTriple(row) ==
    <<row.current_streak, row.longest_streak, row.last_attendance_date>>

(* The days strictly between two dates *)
DaysBetween(a, b) == {d \in 1..MaxDay : a < d /\ d < b}

(* C1: a check-in more than one day after the stored last-activity date
   increments the streak when every day strictly between the two dates is a
   rest day of the client, and resets it to 1 otherwise. *)
C1_GapForgivenOnRestDays ==
    (/\ lastOp.op = "check_in"
     /\ lastOp.ok
     /\ lastOp.date = today
     /\ lastOp.pre_streak.last_attendance_date # NULL
     /\ today - lastOp.pre_streak.last_attendance_date > 1)
    => streaks[lastOp.client].current_streak =
         IF \A d \in DaysBetween(lastOp.pre_streak.last_attendance_date, today) :
                DayName(d) \notin available[lastOp.client]
         THEN lastOp.pre_streak.current_streak + 1
         ELSE 1

(* C2: a second streak update for the same client on the same date, as the
   admin check-in route makes, leaves current streak, longest streak and
   last-activity date as the first call left them. *)
C2_SameDayUpdateIsNoOp ==
    lastOp.op = "admin_checkin"
    => StreakTriple(streaks[lastOp.client]) = StreakTriple(lastOp.mid_streak)

(* C3: after add_experience, a client below the maximum level of the table has
   a current-level experience >= 0 and below the threshold delta to the next
   level. *)
C3_CurrentExpBelowDelta ==
    \A c \in Clients :
        (lastOp.op = "add_experience" /\ gam[c].current_level < TableMaxLevel)
        => /\ gam[c].current_exp >= 0
           /\ gam[c].current_exp <
                EXP_TABLE[gam[c].current_level + 1] - EXP_TABLE[gam[c].current_level]

(* C8: once a check-in has brought the streak to s, the multiplier the next
   add_experience reads is min(1.0 + 0.1 (s - 1), 2.0), and a check-in changes
   no experience already awarded. *)
C8_AwardReadsStreakMultiplier ==
    /\ (lastOp.op = "add_experience"
        /\ streaks[lastOp.client].last_attendance_date # NULL)
       => lastOp.mult =
            Min(10 + (streaks[lastOp.client].current_streak - 1), MultiplierCap10)
    /\ lastOp.op = "check_in"
       => /\ gam[lastOp.client].total_exp = lastOp.pre_gam.total_exp
          /\ gam[lastOp.client].current_exp = lastOp.pre_gam.current_exp

(* C4: when check_and_unlock_achievements runs twice in a row for a client
   with no other operation in between, the second run returns an empty list
   of new unlocks. *)
C4_SecondEvaluationReturnsEmpty ==
    (/\ lastOp.op = "check_and_unlock_achievements"
     /\ lastOp.prev_op = "check_and_unlock_achievements")
    => /\ lastOp.raised = "none"
       /\ lastOp.unlocked = <<>>

(* C10: there is at most one unlock row per (client, achievement); an unlock
   attempt for a pair already unlocked reports no unlock, raises nothing and
   changes neither the rows nor the client's experience, and an attempt that
   reports success found no row before it. *)
C10_AtMostOneUnlockRow ==
    /\ \A c \in Clients : \A a \in AchievementIds : client_achievements[c][a] <= 1
    /\ (lastOp.op = "unlock_achievement" /\ lastOp.pre_count > 0)
       => /\ ~lastOp.ok
          /\ lastOp.raised = "none"
          /\ client_achievements[lastOp.client][lastOp.arg] = lastOp.pre_count
          /\ gam[lastOp.client] = lastOp.pre_gam
    /\ (lastOp.op = "unlock_achievement" /\ lastOp.ok)
       => /\ lastOp.pre_count = 0
          /\ client_achievements[lastOp.client][lastOp.arg] = 1
          /\ gam[lastOp.client].total_exp > lastOp.pre_gam.total_exp

(* C10 witness: a second unlock attempt for a pair that already has its row *)
C10_SecondAttemptMade ==
    /\ lastOp.op = "unlock_achievement"
    /\ lastOp.pre_count = 1
    /\ lastOp.arg \in AchievementIds
    /\ client_achievements[lastOp.client][lastOp.arg] = 1

(* The (exercise, set number) pairs the session's plan requires, with the
   session's substitutions applied *)
RequiredSets(session_id) ==
    LET plan == ApplySessionSwaps(RoutineGetExercises(Db, sessions[session_id].routine_id),
                                  GetSessionSwaps(Db, session_id))
    IN UNION {{<<plan[i].exercise_id, n>> : n \in 1..plan[i].sets} : i \in DOMAIN plan}

(* The (exercise, set number) pairs with a recorded entry *)
RecordedSets(session_id) ==
    {<<r.exercise_id, r.set_number>> : r \in GetCompletedSets(Db, session_id)}

SessionPercentage(session_id) ==
    GetSessionProgress(Db, session_id,
                       sessions[session_id].routine_id).completion_percentage

(* C5: the completion percentage of a session is exactly 100 if and only if
   every (exercise, set number) its substituted plan requires has a recorded
   entry, and it never exceeds 100. *)
C5_PercentageIs100IffPlanRecorded ==
    \A session_id \in DOMAIN sessions :
        /\ Exactly100(SessionPercentage(session_id))
           <=> RequiredSets(session_id) \subseteq RecordedSets(session_id)
        /\ SessionPercentage(session_id).num <= 100 * SessionPercentage(session_id).den

(* C6: a session with status completed has every required set of its plan
   recorded and a completion percentage of at least 100; no operation
   completes a session with missing sets. *)
C6_CompletedOnlyWhenAllSetsRecorded ==
    \A session_id \in DOMAIN sessions :
        sessions[session_id].status = "completed"
        => /\ RequiredSets(session_id) \subseteq RecordedSets(session_id)
           /\ AtLeast100(SessionPercentage(session_id))

(* C7: recording a set keeps exactly one completion row per (session,
   exercise, set number), holding the values of the last call; recording a
   key again leaves the session's completed-set count unchanged. *)
C7_RecordSetIsUpsert ==
    /\ \A r \in completions :
          CompletionRows(Db, r.session_id, r.exercise_id, r.set_number) = {r}
    /\ lastOp.op = "mark_set_completed"
       => /\ CompletionRows(Db, lastOp.session_id, lastOp.exercise_id,
                            lastOp.set_number)
             = {[session_id |-> lastOp.session_id,
                 exercise_id |-> lastOp.exercise_id,
                 set_number |-> lastOp.set_number,
                 reps_completed |-> lastOp.reps,
                 weight_used |-> lastOp.weight]}
          /\ GetSessionProgress(Db, lastOp.session_id, 1).completed_sets
             = IF lastOp.pre_rows # {} THEN lastOp.pre_count
               ELSE lastOp.pre_count + 1

(* C7 witness: a key recorded before is recorded again with other values *)
C7_KeyRecordedAgain ==
    /\ lastOp.op = "mark_set_completed"
    /\ \E r \in lastOp.pre_rows :
          r.reps_completed # lastOp.reps \/ r.weight_used # lastOp.weight
    /\ Cardinality(GetCompletedSets(Db, lastOp.session_id)) = lastOp.pre_count

(* No log_set request is in flight *)
Quiescent == \A t \in Threads : threads[t].pc = "idle"

(* The copies of workout_logs rows of a client *)
LoggedSets(c) ==
    CountRows(workout_logs, {r \in DOMAIN workout_logs : r.client_id = c})

(* C9: once the log_set requests of a session have been answered, duplicates
   whose handling overlapped included, every recorded set has been counted
   once: one workout_logs row per completed set, and the experience of one
   award per completed set in the client's total and in the session's total. *)
C9_DuplicateLogSetAwardedOnce ==
    Quiescent
    => \A session_id \in DOMAIN sessions :
          LET c == sessions[session_id].client_id
              sets == Cardinality(GetCompletedSets(Db, session_id))
          IN /\ LoggedSets(c) = sets
             /\ gam[c].total_exp = sets * ExerciseBaseExp
             /\ sessions[session_id].total_exp_earned = sets * ExerciseBaseExp

(* C11: a completed session never returns to in_progress, and a
   start_or_resume on the key of a completed session reports status
   completed and leaves the session's status, completion time and accumulated
   experience as they were. *)
C11_CompletedIsTerminal ==
    [][\A sid \in DOMAIN sessions :
          sessions[sid].status = "completed"
          => /\ sessions'[sid].status = "completed"
             /\ (lastOp'.op = "workout" /\ lastOp'.session_id = sid)
                => /\ lastOp'.status = "completed"
                   /\ sessions'[sid] = sessions[sid]]_vars

(* C11 witness: start_or_resume has been called on a session that is
   completed *)
C11_ResumedCompletedSession ==
    /\ lastOp.op = "workout"
    /\ lastOp.status = "completed"
    /\ lastOp.session_id \in DOMAIN sessions
    /\ sessions[lastOp.session_id].status = "completed"

(* C12: recording a set or accruing experience against a completed session is
   rejected and leaves its recorded sets and accumulated experience
   unchanged. *)
C12_CompletedSessionRejectsWrites ==
    [][\A sid \in DOMAIN sessions :
          (/\ sessions[sid].status = "completed"
           /\ lastOp'.op \in {"mark_set_completed", "update_session_exp", "log_set"}
           /\ lastOp'.session_id = sid)
          => /\ ~lastOp'.ok
             /\ {r \in completions' : r.session_id = sid}
                = {r \in completions : r.session_id = sid}
             /\ sessions'[sid].total_exp_earned = sessions[sid].total_exp_earned]_vars

(* C13: there is at most one session per (client, routine, date); a
   start_or_resume for a key without a session creates one in_progress with
   zero accumulated experience and reports new, and one for a key with a
   session returns that session's id and creates nothing. *)
C13_OneSessionPerKey ==
    [][/\ \A i, j \in DOMAIN sessions' :
             (/\ sessions'[i].client_id = sessions'[j].client_id
              /\ sessions'[i].routine_id = sessions'[j].routine_id
              /\ sessions'[i].workout_date = sessions'[j].workout_date) => i = j
       /\ lastOp'.op = "workout"
          => LET existing == {i \in DOMAIN sessions :
                                 /\ sessions[i].client_id = lastOp'.client
                                 /\ sessions[i].routine_id = 1
                                 /\ sessions[i].workout_date = today}
             IN IF existing = {}
                THEN /\ lastOp'.status = "new"
                     /\ Len(sessions') = Len(sessions) + 1
                     /\ lastOp'.session_id = Len(sessions')
                     /\ sessions'[Len(sessions')] =
                           [client_id |-> lastOp'.client, routine_id |-> 1,
                            workout_date |-> today, status |-> "in_progress",
                            completed_at |-> NULL, total_exp_earned |-> 0]
                ELSE /\ lastOp'.status # "new"
                     /\ lastOp'.session_id \in existing
                     /\ sessions' = sessions]_vars

(* C13 witness: a later start_or_resume of a day returned the session the
   first one created, and the client has a session on another day *)
C13_SessionResumed ==
    /\ lastOp.op = "workout"
    /\ lastOp.status = "in_progress"
    /\ sessions[lastOp.session_id].workout_date = today
    /\ \E i \in DOMAIN sessions :
          /\ sessions[i].client_id = lastOp.client
          /\ sessions[i].workout_date # today

(* C14: after add_experience the level is within 1..100, and below level 100
   the level-up loop has stopped only because the experience it compares is
   under the threshold of the next level of the table. *)
C14_LevelUpUntilTableMaximum ==
    lastOp.op = "add_experience"
    => LET row == gam[lastOp.client]
       IN /\ row.current_level \in 1..TableMaxLevel
          /\ row.current_level < TableMaxLevel
             => lastOp.pre_gam.current_exp + lastOp.gained
                  < EXP_TABLE[row.current_level + 1]

(* C15: after complete_full_assessment the stored rank of the client is the
   overall rank computed from the summed points, whatever rank that is and
   whatever rank was stored before. *)
C15_AssessmentOverwritesRank ==
    lastOp.op = "complete_full_assessment"
    => /\ lastOp.rank = CalculateOverallRank(lastOp.points)
       /\ gam[lastOp.client].rank = lastOp.rank

(* The ranks of a test whose threshold the score meets *)
RanksMet(test_name, score) ==
    {r \in DOMAIN RANK_POINTS :
        IF test_name = "Sprint"
        THEN TEST_RANKINGS[test_name][r] >= score
        ELSE TEST_RANKINGS[test_name][r] <= score}

(* C17: the rank of a test result is the highest rank whose threshold the
   score meets (threshold <= score, for Sprint threshold >= score) and E when
   none is met, for every score in and out of the scale; for Push-ups a score
   of 42 gives A, 60 gives SS and 5 gives E. *)
C17_RankIsHighestThresholdMet ==
    /\ CalculateRank("Push-ups", 42) = "A"
    /\ CalculateRank("Push-ups", 60) = "SS"
    /\ CalculateRank("Push-ups", 5) = "E"
    /\ (lastOp.op = "record_test_result" /\ lastOp.ok)
       => LET met == RanksMet(lastOp.test_name, lastOp.arg)
          IN /\ lastOp.rank \in DOMAIN RANK_POINTS
             /\ met = {} => lastOp.rank = "E"
             /\ met # {} => /\ lastOp.rank \in met
                            /\ \A r \in met : RankOrderGet(r) <= RankOrderGet(lastOp.rank)
             /\ \E row \in DOMAIN test_results :
                   /\ row.test_name = lastOp.test_name
                   /\ row.score = lastOp.arg
                   /\ row.rank_achieved = lastOp.rank

(* C17 witness: a Sprint result exactly on the threshold of rank S, recorded
   with rank S *)
C17_SprintOnThreshold ==
    /\ lastOp.op = "record_test_result"
    /\ lastOp.ok
    /\ lastOp.test_name = "Sprint"
    /\ lastOp.arg = TEST_RANKINGS["Sprint"].S
    /\ lastOp.rank = "S"

(* C16: over check-ins and streak updates the stored longest streak never
   decreases and is at least the stored current streak; after a single update
   it is the larger of the previous longest streak and the new current streak
   (the admin check-in makes two updates in one request). *)
C16_LongestStreakIsMonotonicMax ==
    [][\A c \in Clients :
          /\ streaks'[c].longest_streak >= streaks[c].longest_streak
          /\ streaks'[c].longest_streak >= streaks'[c].current_streak
          /\ (streaks'[c] # streaks[c] /\ lastOp'.op # "admin_checkin")
             => streaks'[c].longest_streak
                  = IF streaks'[c].current_streak > streaks[c].longest_streak
                    THEN streaks'[c].current_streak
                    ELSE streaks[c].longest_streak]_vars

(* C16 witness: the streak was reset while a longer one is on record *)
C16_ResetBelowLongest ==
    /\ lastOp.op \in {"check_in", "gam_update_streak"}
    /\ lastOp.pre_streak.current_streak >= 2
    /\ streaks[lastOp.client].current_streak = 1
    /\ streaks[lastOp.client].longest_streak >= 2

(* C18: the multiplier the streak update stores is min(1.0 + 0.1 (streak - 1),
   2.0): between 1.0 and 2.0, at the cap exactly from streak 11 on, and
   non-decreasing in the streak. *)
C18_MultiplierCappedAndMonotonic ==
    /\ \A n \in 1..MaxMultDay :
          StreakMultiplierFor(n) <= StreakMultiplierFor(n + 1)
    /\ (lastOp.op = "gam_update_streak" /\ lastOp.ok)
       => LET row == streaks[lastOp.client]
          IN /\ row.current_streak >= 1
             /\ row.streak_multiplier = Min(10 + (row.current_streak - 1), 20)
             /\ row.streak_multiplier >= 10
             /\ row.streak_multiplier <= 20
             /\ row.streak_multiplier = 20 <=> row.current_streak >= 11

(* C18 witness: a streak beyond 11 days stored with the multiplier 2.0 *)
C18_StreakBeyondCap ==
    /\ lastOp.op = "gam_update_streak"
    /\ streaks[lastOp.client].current_streak = 12
    /\ streaks[lastOp.client].streak_multiplier = 20


(* C19: the experience awarded by add_experience is floor(base x streak
   multiplier x class multiplier) of the decimal multipliers: base 100 with
   streak multiplier 1.5 and class multiplier 1.2 awards exactly 180. *)
C19_AwardIsFloorOfProduct ==
    lastOp.op = "add_experience"
    => lastOp.gained = ExpGainedExact(lastOp.arg, lastOp.mult, lastOp.class_mult)

(* C20: a class is set at most once and only at level 5 or above: unlock_class
   succeeds exactly for a valid class name, a client without a class and a
   level of at least 5; it then stores the name and the level at that moment;
   a refused choice, a second one included, leaves the client's row as it
   was, and no other operation changes the class or its level. *)
C20_ClassSetOnceAtLevelFive ==
    [][\A c \in Clients :
          /\ gam[c].client_class # "None"
             => /\ gam'[c].client_class = gam[c].client_class
                /\ gam'[c].class_unlocked_at_level = gam[c].class_unlocked_at_level
          /\ gam'[c].client_class # gam[c].client_class
             => /\ lastOp'.op = "unlock_class" /\ lastOp'.client = c /\ lastOp'.ok
                /\ gam[c].current_level >= 5
                /\ gam'[c].client_class = lastOp'.class_name
                /\ gam'[c].client_class \in CLASSES
                /\ gam'[c].class_unlocked_at_level = gam[c].current_level
          /\ (lastOp'.op = "unlock_class" /\ lastOp'.client = c)
             => /\ lastOp'.ok <=> /\ lastOp'.class_name \in CLASSES
                                  /\ gam[c].client_class = "None"
                                  /\ gam[c].current_level >= 5
                /\ lastOp'.ok => gam'[c].client_class = lastOp'.class_name
                /\ ~lastOp'.ok => gam'[c] = gam[c]]_vars

(* C20 witness: a client holding a class asked for a different valid class and
   was refused *)
C20_SecondChoiceRefused ==
    /\ lastOp.op = "unlock_class"
    /\ ~lastOp.ok
    /\ lastOp.status = "Class already selected"
    /\ lastOp.class_name \in CLASSES
    /\ lastOp.pre_gam.client_class \in CLASSES \ {lastOp.class_name}
    /\ gam[lastOp.client].client_class = lastOp.pre_gam.client_class
    /\ gam[lastOp.client].class_unlocked_at_level >= 5


(* C21: an assessment whose scores name a discipline that is not a known test
   is returned as a failure, not as a successful assessment. *)
C21_UnknownDisciplineIsFailure ==
    (lastOp.op = "complete_full_assessment"
     /\ lastOp.test_names \ PhysicalTests # {})
    => ~lastOp.ok


(* C22: the lifetime total experience of a client never decreases, whatever
   the operations, and every award raises it by exactly the amount awarded:
   the award of add_experience called on its own, and the award of each
   log_set request when its UPDATE is written. *)
C22_TotalExpNeverDecreases ==
    [][\A c \in Clients :
          /\ gam'[c].total_exp >= gam[c].total_exp
          /\ (lastOp'.op = "add_experience" /\ lastOp'.client = c)
             => gam'[c].total_exp = gam[c].total_exp + lastOp'.gained
          /\ \A t \in Threads :
                (/\ threads[t].pc = "award_write"
                 /\ threads'[t].pc = "log_insert"
                 /\ threads[t].client_id = c)
                => gam'[c].total_exp = gam[c].total_exp + threads[t].exp_gained]_vars


(* The exercise list the workout page shows for a session: the routine's rows
   with the session's substitutions applied *)
SessionExercises(db, session_id) ==
    ApplySessionSwaps(RoutineGetExercises(db, db.sessions[session_id].routine_id),
                      GetSessionSwaps(db, session_id))

(* C23: a substitution saved for a session leaves the routine's rows and the
   exercise lists of all other sessions as they were; in the session's own
   list every slot keeps the sets, reps and rest of the routine's row, the
   slot of the replaced exercise shows the replacement (when that exercise
   exists) and the other slots show what they showed before. *)
C23_SwapIsSessionLocal ==
    [][(lastOp'.op = "swap_exercise" /\ lastOp'.ok)
       => LET sid == lastOp'.session_id
              old_id == lastOp'.exercise_id
              new_id == lastOp'.arg
              plan == routine_exercises[sessions[sid].routine_id]
              before == SessionExercises(Db, sid)
              after == SessionExercises(Db', sid)
          IN /\ routine_exercises' = routine_exercises
             /\ \A other \in DOMAIN sessions \ {sid} :
                   SessionExercises(Db', other) = SessionExercises(Db, other)
             /\ DOMAIN after = DOMAIN plan
             /\ \A i \in DOMAIN plan :
                   /\ after[i].sets = plan[i].sets
                   /\ after[i].reps = plan[i].reps
                   /\ after[i].rest_seconds = plan[i].rest_seconds
                   /\ (plan[i].exercise_id = old_id /\ ExerciseExists(new_id))
                      => after[i].exercise_id = new_id
                   /\ plan[i].exercise_id # old_id
                      => after[i].exercise_id = before[i].exercise_id]_vars

(* C23 witness: a session shows a replacement while another session of the
   same routine still shows the routine's own exercises *)
C23_SwapSeenByOneSession ==
    /\ lastOp.op = "swap_exercise"
    /\ lastOp.ok
    /\ \E i \in DOMAIN SessionExercises(Db, lastOp.session_id) :
          /\ SessionExercises(Db, lastOp.session_id)[i].exercise_id = lastOp.arg
          /\ routine_exercises[sessions[lastOp.session_id].routine_id][i].exercise_id
                = lastOp.exercise_id
          /\ lastOp.arg # lastOp.exercise_id
    /\ \E other \in DOMAIN sessions \ {lastOp.session_id} :
          /\ sessions[other].routine_id = sessions[lastOp.session_id].routine_id
          /\ SessionExercises(Db, other)
                = routine_exercises[sessions[other].routine_id]


(* C24: when a log_set request has recorded a set and every set the session's
   plan requires is then recorded, the session is completed, with its
   completion time, by the time the request returns. *)
C24_LastSetCompletesSession ==
    (/\ lastOp.op = "log_set"
     /\ lastOp.ok
     /\ lastOp.session_id \in DOMAIN sessions
     /\ RequiredSets(lastOp.session_id) \subseteq RecordedSets(lastOp.session_id))
    => /\ sessions[lastOp.session_id].status = "completed"
       /\ sessions[lastOp.session_id].completed_at # NULL


(* The fixed order of the ranks, E < D < C < B < A < S < SS, as positions *)
RankPosition ==
    [r \in {"E", "D", "C", "B", "A", "S", "SS"} |->
        CASE r = "E" -> 0 [] r = "D" -> 1 [] r = "C" -> 2 [] r = "B" -> 3
          [] r = "A" -> 4 [] r = "S" -> 5 [] r = "SS" -> 6]

(* C25: the requirement of a rank achievement is met only when the position of
   the client's rank in the fixed order is at least the position of the rank
   the catalog entry requires, for every rank achievement of the catalog: a
   required rank outside the order is met by no rank. *)
C25_RankAchievementByOrdinal ==
    (/\ lastOp.op = "check_requirement"
     /\ DEFAULT_ACHIEVEMENTS[lastOp.arg].type = "rank"
     /\ lastOp.ok)
    => LET required == DEFAULT_ACHIEVEMENTS[lastOp.arg].requirement
       IN /\ required \in DOMAIN RankPosition
          /\ RankPosition[lastOp.rank] >= RankPosition[required]


(* The workout_logs rows of a client that count for the stats *)
OwnRows(c) ==
    {r \in DOMAIN workout_logs : r.client_id = c /\ r.measurement = "reps"}

(* A client's own lifetime count for an achievement type *)
OwnCount(c, type) ==
    CASE type = "workouts" -> Cardinality({r.workout_date : r \in OwnRows(c)})
      [] type = "sets" -> CountRows(workout_logs, OwnRows(c))
      [] type = "reps" -> SumReps(workout_logs, OwnRows(c))

(* C26: once the achievements of a client have been evaluated, a workout-,
   set- or rep-count achievement is unlocked for that client exactly when the
   client's own workout days, sets or reps reach its threshold. *)
C26_StatsFromOwnRecords ==
    lastOp.op = "check_and_unlock_achievements"
    => \A a \in AchievementIds :
          DEFAULT_ACHIEVEMENTS[a].type \in {"workouts", "sets", "reps"}
          => (client_achievements[lastOp.client][a] > 0
              <=> OwnCount(lastOp.client, DEFAULT_ACHIEVEMENTS[a].type)
                    >= DEFAULT_ACHIEVEMENTS[a].requirement)


(* The experience the log_set requests of a client were awarded: the
   exp_earned of the client's workout_logs rows *)
RECURSIVE SumExpEarned(_, _)
SumExpEarned(logs, rows) ==
    IF rows = {} THEN 0
    ELSE LET r == CHOOSE x \in rows : TRUE
         IN logs[r] * r.exp_earned + SumExpEarned(logs, rows \ {r})

(* C27: once the overlapping awards of a client have all completed, the
   client's lifetime total is the initial 0 plus the sum of the amounts
   awarded, and the level is the one of that total: no award is lost. *)
C27_NoLostUpdate ==
    Quiescent
    => \A c \in Clients :
          /\ gam[c].total_exp
                = SumExpEarned(workout_logs,
                               {r \in DOMAIN workout_logs : r.client_id = c})
          /\ gam[c].current_level = LevelAfter(1, gam[c].total_exp)


(* C28: add_experience is additive: from the same state and under the same
   multipliers (here the fresh row and 1.0), a sequence of awards leaves the
   level and the current-level experience that one award of their sum
   leaves; the level depends only on the lifetime experience earned. *)
C28_AwardIsAdditive ==
    (lastOp.op = "add_experience" /\ lastOp.prev_op = "add_experience")
    => LET single == GamRowAfterExp(NewGamRow, gam[lastOp.client].total_exp)
       IN /\ gam[lastOp.client].current_level = single.current_level
          /\ gam[lastOp.client].current_exp = single.current_exp


RECURSIVE RewardSum(_)
RewardSum(ids) ==
    IF ids = {} THEN 0
    ELSE LET a == CHOOSE x \in ids : TRUE
         IN AchievementRow(a).exp_reward + RewardSum(ids \ {a})

(* C29: every recorded achievement unlock has had its reward credited: a
   client with unlock rows has a progression row whose lifetime total holds
   at least the rewards of the achievements unlocked, also when the award
   fails after the unlock row was inserted. *)
C29_UnlockHasReward ==
    \A c \in Clients :
        UnlockedAchievementIds(Db, c) # {}
        => /\ gam[c].present
           /\ gam[c].total_exp >= RewardSum(UnlockedAchievementIds(Db, c))


(* C30: check_in(client, d) with an explicit date d advances the streak
   relative to d: after an accepted check-in the attendance record and the
   stored last-activity date both carry d, and the streak row is the one
   computed from the gap between the previous last-activity date and d. *)
C30_CheckInStreakRelativeToDate ==
    (lastOp.op = "check_in" /\ lastOp.ok)
    => /\ HasAttendance(Db, lastOp.client, lastOp.date)
       /\ streaks[lastOp.client].last_attendance_date = lastOp.date
       /\ streaks[lastOp.client]
              = StreakRowAfter(lastOp.pre_streak, lastOp.date,
                               available[lastOp.client])

============================================================================
